---- MODULE Spec2Model ----
(***************************************************************************)
(* Model of the Computer Use agent loop (electron/computer-use/agent.cjs)  *)
(* and of the Security Vault gate (electron/computer-use/vault.cjs).       *)
(*                                                                         *)
(* One ComputerUseAgent instance.  Every call of run() is an activation of *)
(* the async function; an activation advances from one await to the next   *)
(* in one atomic step (JavaScript runs to completion between awaits), and   *)
(* stop(), pause(), resume() and further run() calls interleave with the    *)
(* activations at their await points.                                      *)
(***************************************************************************)
EXTENDS Integers, Sequences, FiniteSets, TLC

\* ---------------------------------------------------------------- bounds
\* MAX_STEPS is 25 in the source; the model runs the same loop with a
\* smaller budget.
MAX_STEPS == 3
\* Number of run() activations that can be in progress at the same time.
MaxLoops == 2

\* ------------------------------------------------------ program constants
MAX_ACTION_RETRIES == 2
MAX_AI_RETRIES == 2
MAX_SCREENSHOT_RETRIES == 2
STUCK_THRESHOLD == 3

Loops == 1..MaxLoops

\* Goals a caller may pass to run(): empty, whitespace-only, a real goal.
Goals == {"", " ", "open notepad"}

\* goal.trim()
Trim(g) == IF g = " " THEN "" ELSE g

\* Fingerprints of the screenshots the screen can deliver (ssHash).  The
\* fingerprint always starts with the payload length, so it is never ''.
Fingerprints == {"A", "B"}

\* Summaries of the results of run()
DoneSummary == "Goal completed"
OracleErrorSummary == "Unknown error"
StuckSummary == "Stuck: screen unchanged after 3 attempts. Stopping."
ScreenshotSummary == "Screenshot failed"
AISummary == "AI analysis failed"
BudgetSummary == "Stopped: reached maximum steps without completing goal"
StoppedSummary == "Agent stopped by user"
TypeErrorSummary == "Cannot read properties of undefined (reading 'thought')"

NoResult == [kind |-> "none"]
Returned(ok, summary, n) ==
    [kind |-> "returned", success |-> ok, summary |-> summary, steps |-> n]
\* The promise of run() rejects with the exception that escaped the catch
\* block.
Rejected == [kind |-> "rejected"]

\* ------------------------------------------------------------ decisions
\* A decision of the oracle: { thought, action, params }.  params is kept as
\* the one parameter the gate looks at (url for open_url, text for type).
NoParam == <<>>
Decision(a, p) == [thought |-> <<>>, action |-> a, param |-> p]
NoDecision == Decision("none", NoParam)

PaypalUrl == <<"p","a","y","p","a","l",".","c","o","m">>
ExampleUrl == <<"e","x","a","m","p","l","e",".","c","o","m">>

\* The summary of a done decision (params.summary).
OpenedParam == <<"o","p","e","n","e","d">>

\* What vision.analyzeScreen can resolve to.
OracleDecisions ==
    { Decision("open_url", PaypalUrl),
      Decision("open_url", ExampleUrl),
      Decision("done", NoParam),
      Decision("done", OpenedParam),
      Decision("error", NoParam) }

\* decision.params?.summary || 'Goal completed'
summaryOf(d) == IF d.param = NoParam THEN DoneSummary ELSE "opened"

\* A recorded step: the decision object pushed to this.steps; failed counts
\* the " [FAILED: ...]" markers appended to its thought.
Step(d) == [action |-> d.action, failed |-> 0]

\* ------------------------------------------------------------------ vault
\* DEFAULT_VAULT.maxStepsPerTask: 25 in the source, the same number as
\* MAX_STEPS, and scaled with it.
DefaultMaxStepsPerTask == MAX_STEPS

\* Strings are sequences of one-character strings.
UpperCase == <<"A","B","C","D","E","F","G","H","I","J","K","L","M","N","O","P","Q","R","S","T","U","V","W","X","Y","Z">>
LowerCase == <<"a","b","c","d","e","f","g","h","i","j","k","l","m","n","o","p","q","r","s","t","u","v","w","x","y","z">>
Digits == {"0","1","2","3","4","5","6","7","8","9"}

\* String.prototype.toLowerCase, on the ASCII letters
UpperLetters == {UpperCase[i] : i \in 1..Len(UpperCase)}
Letters == UpperLetters \cup {LowerCase[i] : i \in 1..Len(LowerCase)}
LowerOf ==
    [c \in UpperLetters |->
        LowerCase[CHOOSE i \in 1..Len(UpperCase) : UpperCase[i] = c]]
LowerChar(c) == IF c \in UpperLetters THEN LowerOf[c] ELSE c
toLowerCase(s) == [i \in 1..Len(s) |-> LowerChar(s[i])]

\* String.prototype.includes
includes(s, sub) ==
    \E i \in 0..(Len(s) - Len(sub)) :
        \A j \in 1..Len(sub) : s[i + j] = sub[j]

\* Characters the '.' of a regular expression does not match.
LineTerminators == {"\n", "\r"}

\* patternToRegex(pattern).test(s): every character of the pattern but '*'
\* is escaped and literal, '*' becomes '.*' (any run of characters other
\* than line terminators), the flag is 'i', and the regex has no anchors,
\* so the match may start and end anywhere in s.
RECURSIVE MatchHere(_, _, _, _)
MatchHere(pattern, i, s, j) ==
    IF i > Len(pattern) THEN TRUE
    ELSE IF pattern[i] = "*"
         THEN \E k \in j..(Len(s) + 1) :
                  /\ \A m \in j..(k - 1) : s[m] \notin LineTerminators
                  /\ MatchHere(pattern, i + 1, s, k)
         ELSE /\ j <= Len(s)
              /\ LowerChar(s[j]) = LowerChar(pattern[i])
              /\ MatchHere(pattern, i + 1, s, j + 1)

\* patternToRegex without the escaping of the pattern: '.' matches any
\* character but a line terminator.
RECURSIVE MatchHereDotAny(_, _, _, _)
MatchHereDotAny(pattern, i, s, j) ==
    IF i > Len(pattern) THEN TRUE
    ELSE IF pattern[i] = "*"
         THEN \E k \in j..(Len(s) + 1) :
                  /\ \A m \in j..(k - 1) : s[m] \notin LineTerminators
                  /\ MatchHereDotAny(pattern, i + 1, s, k)
         ELSE /\ j <= Len(s)
              /\ \/ LowerChar(s[j]) = LowerChar(pattern[i])
                 \/ pattern[i] = "." /\ s[j] \notin LineTerminators
              /\ MatchHereDotAny(pattern, i + 1, s, j + 1)

patternToRegexTest_DotAny(pattern, s) ==
    \E j \in 1..(Len(s) + 1) : MatchHereDotAny(pattern, 1, s, j)

\* patternToRegex with the regex anchored at both ends ('^...$').
RECURSIVE MatchToEnd(_, _, _, _)
MatchToEnd(pattern, i, s, j) ==
    IF i > Len(pattern) THEN j = Len(s) + 1
    ELSE IF pattern[i] = "*"
         THEN \E k \in j..(Len(s) + 1) :
                  /\ \A m \in j..(k - 1) : s[m] \notin LineTerminators
                  /\ MatchToEnd(pattern, i + 1, s, k)
         ELSE /\ j <= Len(s)
              /\ LowerChar(s[j]) = LowerChar(pattern[i])
              /\ MatchToEnd(pattern, i + 1, s, j + 1)

patternToRegexTest_Anchored(pattern, s) == MatchToEnd(pattern, 1, s, 1)

patternToRegexTest(pattern, s) ==
    \E j \in 1..(Len(s) + 1) : MatchHere(pattern, 1, s, j)

DEFAULT_VAULT ==
    [blockedApps |-> <<
          <<"K","e","e","P","a","s","s">>,
          <<"K","e","e","P","a","s","s","X","C">>,
          <<"1","P","a","s","s","w","o","r","d">>,
          <<"B","i","t","w","a","r","d","e","n">>,
          <<"L","a","s","t","P","a","s","s">>,
          <<"k","e","e","p","a","s","s">>,
          <<"k","e","e","p","a","s","s","x","c">>,
          <<"1","p","a","s","s","w","o","r","d">>,
          <<"b","i","t","w","a","r","d","e","n">>,
          <<"l","a","s","t","p","a","s","s">> >>,
     blockedSites |-> <<
          <<"*",".","b","a","n","k",".","*">>,
          <<"*",".","b","a","n","k","i","n","g",".","*">>,
          <<"p","a","y","p","a","l",".","c","o","m">>,
          <<"r","a","z","o","r","p","a","y",".","c","o","m">>,
          <<"s","t","r","i","p","e",".","c","o","m">>,
          <<"p","a","y",".","g","o","o","g","l","e",".","c","o","m">>,
          <<"w","a","l","l","e","t",".","g","o","o","g","l","e",".","c","o","m">>,
          <<"o","n","l","i","n","e","b","a","n","k","i","n","g",".","*">>,
          <<"n","e","t","b","a","n","k","i","n","g",".","*">>,
          <<"o","n","l","i","n","e","s","b","i",".","s","b","i">>,
          <<"h","d","f","c","b","a","n","k",".","c","o","m">>,
          <<"i","c","i","c","i","b","a","n","k",".","c","o","m">>,
          <<"a","x","i","s","b","a","n","k",".","c","o","m">>,
          <<"k","o","t","a","k",".","c","o","m">>,
          <<"p","n","b","i","n","d","i","a",".","i","n">>,
          <<"b","a","n","k","o","f","i","n","d","i","a",".","c","o",".","i","n">> >>,
     blockedKeywords |-> <<
          <<"p","a","s","s","w","o","r","d">>,
          <<"p","a","s","s","w","d">>,
          <<"s","e","c","r","e","t">>,
          <<"c","v","v">>,
          <<"p","i","n">>,
          <<"o","t","p">>,
          <<"c","r","e","d","i","t"," ","c","a","r","d">>,
          <<"d","e","b","i","t"," ","c","a","r","d">>,
          <<"c","a","r","d"," ","n","u","m","b","e","r">>,
          <<"e","x","p","i","r","y">>,
          <<"s","s","n">>,
          <<"s","o","c","i","a","l"," ","s","e","c","u","r","i","t","y">>,
          <<"a","a","d","h","a","a","r">>,
          <<"p","a","n"," ","c","a","r","d">> >>,
     safetyMode |-> "ask-before",
     neverSaveScreenshots |-> TRUE,
     maxStepsPerTask |-> DefaultMaxStepsPerTask,
     requireConfirmation |-> <<
          <<"s","e","n","d">>,
          <<"s","u","b","m","i","t">>,
          <<"p","o","s","t">>,
          <<"p","u","b","l","i","s","h">>,
          <<"d","e","l","e","t">>,
          <<"r","e","m","o","v">>,
          <<"p","a","y">>,
          <<"p","u","r","c","h","a","s","e">>,
          <<"b","u","y">>,
          <<"c","h","e","c","k","o","u","t">>,
          <<"t","r","a","n","s","f","e","r">> >>]

VaultFields == DOMAIN DEFAULT_VAULT

\* The vault file: missing, unreadable, or the JSON of the saved fields.
NoVaultFile == [state |-> "missing", saved |-> [maxStepsPerTask |-> 0]]
\* A value the operator saved for maxStepsPerTask, smaller than the default.
SavedMaxSteps == 2
SavedVault == [state |-> "valid", saved |-> [maxStepsPerTask |-> SavedMaxSteps]]
\* The operator's record, damaged: the file is there and JSON.parse fails on
\* it.
CorruptVault ==
    [state |-> "unreadable", saved |-> [maxStepsPerTask |-> SavedMaxSteps]]

\* loadVault with the merge the other way round: { ...saved,
\* ...DEFAULT_VAULT }.
loadVault_DefaultsOver(file) ==
    [k \in VaultFields |-> DEFAULT_VAULT[k]]

\* loadVault(): { ...DEFAULT_VAULT, ...saved }, or the defaults when the
\* file cannot be read or parsed.
loadVault(file) ==
    IF file.state = "valid"
    THEN [k \in VaultFields |->
            IF k \in DOMAIN file.saved THEN file.saved[k] ELSE DEFAULT_VAULT[k]]
    ELSE DEFAULT_VAULT

\* A property of a config object whose value is undefined.
Undefined == "undefined"

\* The fields of config that JSON.stringify writes: a property whose value
\* is undefined is left out.  safetyMode is the field the configs of the
\* model leave undefined.
Written(config) ==
    {k \in DOMAIN config : ~(k = "safetyMode" /\ config[k] = Undefined)}

\* saveVault(config): the file holds JSON.stringify(config), which
\* JSON.parse reads back as the written fields with their values.
saveVault(config) ==
    [state |-> "valid", saved |-> [k \in Written(config) |-> config[k]]]

Blocked(why) == [blocked |-> TRUE, reason |-> why]
NotBlocked == [blocked |-> FALSE, reason |-> ""]

\* checkApp comparing for equality only.
checkApp_ExactOnly(file, processName) ==
    IF processName = <<>> THEN NotBlocked
    ELSE LET vault == loadVault(file)
             lower == toLowerCase(processName)
         IN IF \E i \in 1..Len(vault.blockedApps) :
                   lower = toLowerCase(vault.blockedApps[i])
            THEN Blocked("app") ELSE NotBlocked

checkApp(file, processName) ==
    IF processName = <<>> THEN NotBlocked
    ELSE LET vault == loadVault(file)
             lower == toLowerCase(processName)
         IN IF \E i \in 1..Len(vault.blockedApps) :
                   \/ lower = toLowerCase(vault.blockedApps[i])
                   \/ includes(lower, toLowerCase(vault.blockedApps[i]))
            THEN Blocked("app") ELSE NotBlocked

checkUrl(file, url) ==
    IF url = <<>> THEN NotBlocked
    ELSE LET vault == loadVault(file)
             lower == toLowerCase(url)
         IN IF \E i \in 1..Len(vault.blockedSites) :
                   patternToRegexTest(vault.blockedSites[i], lower)
            THEN Blocked("site") ELSE NotBlocked

IsDigitAt(s, i) == i \in 1..Len(s) /\ s[i] \in Digits
\* \w of a regular expression
IsWordAt(s, i) ==
    /\ i \in 1..Len(s)
    /\ s[i] \in Digits \cup {"_"} \cup Letters
\* \b right before position i
WordBoundary(s, i) == IsWordAt(s, i - 1) # IsWordAt(s, i)
\* \d{n} at position i
DigitsAt(s, i, n) == \A k \in 0..(n - 1) : IsDigitAt(s, i + k)
\* the positions after an optional separator at position i
Whitespace == {" ", "\t", "\n", "\r", "\f"}
AfterOptional(s, i, seps) ==
    {i} \cup (IF i \in 1..Len(s) /\ s[i] \in seps THEN {i + 1} ELSE {})

\* The card pattern without its word boundaries.
CardPattern_NoBoundary(s) ==
    \E i \in 1..Len(s) :
        /\ DigitsAt(s, i, 4)
        /\ \E a \in AfterOptional(s, i + 4, Whitespace \cup {"-"}) :
            /\ DigitsAt(s, a, 4)
            /\ \E b \in AfterOptional(s, a + 4, Whitespace \cup {"-"}) :
                /\ DigitsAt(s, b, 4)
                /\ \E c \in AfterOptional(s, b + 4, Whitespace \cup {"-"}) :
                    DigitsAt(s, c, 1)

\* /\b\d{4}[\s-]?\d{4}[\s-]?\d{4}[\s-]?\d{1,7}\b/.test(s)
CardPattern(s) ==
    \E i \in 1..Len(s) :
        /\ WordBoundary(s, i)
        /\ DigitsAt(s, i, 4)
        /\ \E a \in AfterOptional(s, i + 4, Whitespace \cup {"-"}) :
            /\ DigitsAt(s, a, 4)
            /\ \E b \in AfterOptional(s, a + 4, Whitespace \cup {"-"}) :
                /\ DigitsAt(s, b, 4)
                /\ \E c \in AfterOptional(s, b + 4, Whitespace \cup {"-"}) :
                    \E n \in 1..7 : DigitsAt(s, c, n) /\ WordBoundary(s, c + n)

\* /\b\d{4}\s?\d{4}\s?\d{4}\b/.test(s)
AadhaarPattern(s) ==
    \E i \in 1..Len(s) :
        /\ WordBoundary(s, i)
        /\ DigitsAt(s, i, 4)
        /\ \E a \in AfterOptional(s, i + 4, Whitespace) :
            /\ DigitsAt(s, a, 4)
            /\ \E b \in AfterOptional(s, a + 4, Whitespace) :
                DigitsAt(s, b, 4) /\ WordBoundary(s, b + 4)

checkText(file, text) ==
    IF text = <<>> THEN NotBlocked
    ELSE LET vault == loadVault(file)
             lower == toLowerCase(text)
         IN IF \E i \in 1..Len(vault.blockedKeywords) :
                   includes(lower, toLowerCase(vault.blockedKeywords[i]))
            THEN Blocked("keyword")
            ELSE IF CardPattern(text) THEN Blocked("card")
            ELSE IF AadhaarPattern(text) THEN Blocked("aadhaar")
            ELSE NotBlocked

Destructive ==
    <<
        <<"d","e","l","e","t","e">>,
        <<"r","e","m","o","v","e">>,
        <<"s","e","n","d">>,
        <<"s","u","b","m","i","t">>,
        <<"p","o","s","t">>,
        <<"p","u","b","l","i","s","h">>,
        <<"p","a","y">>,
        <<"c","o","n","f","i","r","m"," ","o","r","d","e","r">> >>

Confirm(why) == [needsConfirmation |-> TRUE, reason |-> why]
NoConfirm == [needsConfirmation |-> FALSE, reason |-> ""]

\* checkConfirmation without the 'watch-only' branch.
checkConfirmation_NoWatchOnly(file, thought, action, params) ==
    LET vault == loadVault(file)
        thoughtLower == toLowerCase(thought)
    IN IF vault.safetyMode = "full-auto" THEN NoConfirm
       ELSE IF \E i \in 1..Len(vault.requireConfirmation) :
                  includes(thoughtLower, vault.requireConfirmation[i])
            THEN Confirm("keyword")
       ELSE IF /\ action = "click"
               /\ thought # <<>>
               /\ \E i \in 1..Len(Destructive) :
                      includes(thoughtLower, Destructive[i])
            THEN Confirm("destructive")
       ELSE NoConfirm

checkConfirmation(file, thought, action, params) ==
    LET vault == loadVault(file)
        thoughtLower == toLowerCase(thought)
    IN IF vault.safetyMode = "full-auto" THEN NoConfirm
       ELSE IF vault.safetyMode = "watch-only" THEN Confirm("watch-only")
       ELSE IF \E i \in 1..Len(vault.requireConfirmation) :
                  includes(thoughtLower, vault.requireConfirmation[i])
            THEN Confirm("keyword")
       ELSE IF /\ action = "click"
               /\ thought # <<>>
               /\ \E i \in 1..Len(Destructive) :
                      includes(thoughtLower, Destructive[i])
            THEN Confirm("destructive")
       ELSE NoConfirm

Denied(why) ==
    [allowed |-> FALSE, reason |-> why, needsConfirmation |-> FALSE,
     confirmReason |-> ""]

\* checkAction(decision, activeWindowProcess = '')
checkAction(file, d, activeWindowProcess) ==
    IF checkApp(file, activeWindowProcess).blocked
    THEN Denied(checkApp(file, activeWindowProcess).reason)
    ELSE IF /\ d.action = "open_url"
            /\ d.param # <<>>
            /\ checkUrl(file, d.param).blocked
         THEN Denied(checkUrl(file, d.param).reason)
    ELSE IF /\ d.action = "type"
            /\ d.param # <<>>
            /\ checkText(file, d.param).blocked
         THEN Denied(checkText(file, d.param).reason)
    ELSE LET confirmCheck == checkConfirmation(file, d.thought, d.action, d.param)
         IN [allowed |-> TRUE, reason |-> "",
             needsConfirmation |-> confirmCheck.needsConfirmation,
             confirmReason |-> confirmCheck.reason]

\* ------------------------------------------------------- vault inputs
\* Process names of the active window.
NoProcess == <<>>
KeePassProcess == <<"K","e","e","P","a","s","s">>
KeePassXCExe == <<"K","e","e","P","a","s","s","X","C",".","e","x","e">>
NotepadProcess == <<"n","o","t","e","p","a","d">>
ChromeProcess == <<"c","h","r","o","m","e">>
\* Destinations of open_url decisions.
HdfcLoginUrl == <<"h","t","t","p","s",":","/","/","h","d","f","c","b","a","n","k",".","c","o","m","/","l","o","g","i","n">>
PaypalPayUrl == <<"h","t","t","p","s",":","/","/","w","w","w",".","p","a","y","p","a","l",".","c","o","m","/","p","a","y">>
LinkedinUrl == <<"h","t","t","p","s",":","/","/","w","w","w",".","l","i","n","k","e","d","i","n",".","c","o","m">>
GoogleUrl == <<"h","t","t","p","s",":","/","/","w","w","w",".","g","o","o","g","l","e",".","c","o","m">>
SecureBankUrl == <<"s","e","c","u","r","e",".","b","a","n","k",".","e","x","a","m","p","l","e">>
BankExampleUrl == <<"b","a","n","k","e","x","a","m","p","l","e",".","c","o","m">>
PaypalXcomUrl == <<"p","a","y","p","a","l","x","c","o","m">>
UpperPaypalUrl == <<"P","A","Y","P","A","L",".","C","O","M">>
PayNewlineUrl == <<"p","a","y","\n","p","a","l",".","c","o","m">>
\* Texts of type decisions.
CardText == <<"4","1","1","1"," ","1","1","1","1"," ","1","1","1","1"," ","1","1","1","1">>
MeetingText == <<"M","e","e","t","i","n","g"," ","a","t"," ","4",":","1","1"," ","P","M"," ","o","n"," ","1","1","/","1","1">>
PasswordText == <<"m","y"," ","p","a","s","s","w","o","r","d"," ","i","s"," ","a","b","c","1","2","3">>
UpperPinText == <<"M","y"," ","P","I","N">>
GluedCardText == <<"x","4","1","1","1","1","1","1","1","1","1","1","1","1","1","1","1">>
TwentyDigitsText == <<"4","1","1","1","1","1","1","1","1","1","1","1","1","1","1","1","1","1","1","1">>
AadhaarText == <<"1","2","3","4"," ","5","6","7","8"," ","9","0","1","2">>
HyphenTwelveText == <<"1","2","3","4","-","5","6","7","8","-","9","0","1","2">>
TabCardText == <<"4","1","1","1","\t","1","1","1","1","\t","1","1","1","1","\t","1","1","1","1">>
FutureText == <<"A","I"," ","i","s"," ","t","h","e"," ","f","u","t","u","r","e">>
\* Thoughts of decisions.
NoThought == <<>>
SendThought == <<"c","l","i","c","k","i","n","g"," ","s","e","n","d"," ","b","u","t","t","o","n">>
MessageThought == <<"t","y","p","i","n","g"," ","t","h","e"," ","m","e","s","s","a","g","e"," ","c","o","n","t","e","n","t">>
ConfirmOrderThought == <<"c","l","i","c","k"," ","c","o","n","f","i","r","m"," ","o","r","d","e","r">>
UpperSendThought == <<"S","E","N","D"," ","t","h","e"," ","e","m","a","i","l">>
\* Entries of a vault the operator saved.
PayStarPattern == <<"p","a","y","*",".","c","o","m">>
UpperSendTrigger == <<"S","e","n","d">>

Processes == {NoProcess, KeePassProcess, KeePassXCExe, NotepadProcess, ChromeProcess}
Urls ==
    {<<>>, PaypalUrl, ExampleUrl, HdfcLoginUrl, PaypalPayUrl, LinkedinUrl, GoogleUrl,
     SecureBankUrl, BankExampleUrl, PaypalXcomUrl, UpperPaypalUrl, PayNewlineUrl}
Texts ==
    {<<>>, CardText, MeetingText, PasswordText, UpperPinText, GluedCardText,
     TwentyDigitsText, AadhaarText, HyphenTwelveText, TabCardText, FutureText}
Thoughts ==
    {NoThought, SendThought, MessageThought, ConfirmOrderThought, UpperSendThought}

\* { thought, action, params } as the gate receives it.
DecisionOf(th, a, p) == [thought |-> th, action |-> a, param |-> p]

\* The decisions and active windows checkAction is called with, and the
\* texts checkText is called with directly.
GateUrls == {<<>>, PaypalUrl, HdfcLoginUrl, LinkedinUrl}
GateDecisions ==
    {DecisionOf(th, "click", NoParam) : th \in Thoughts}
    \cup {DecisionOf(th, "type", FutureText) : th \in Thoughts}
    \cup {DecisionOf(MessageThought, "open_url", u) : u \in GateUrls}
    \cup {DecisionOf(MessageThought, "type", t) : t \in Texts}
GateProcesses == {NoProcess, KeePassXCExe, ChromeProcess}
DirectTexts == {<<>>, CardText, PasswordText, FutureText}

\* Vault files: safety modes the operator saved, and a vault with lists of
\* the operator's own.
FullAutoVault == [state |-> "valid", saved |-> [safetyMode |-> "full-auto"]]
WatchOnlyVault == [state |-> "valid", saved |-> [safetyMode |-> "watch-only"]]
CustomVault ==
    [state |-> "valid",
     saved |-> [blockedSites |-> <<PayStarPattern>>,
                requireConfirmation |-> <<UpperSendTrigger>>]]
VaultFiles ==
    {NoVaultFile, SavedVault, CorruptVault, FullAutoVault, WatchOnlyVault,
     CustomVault}

\* A config object with a list of the operator's own and no safety mode.
PartialConfig ==
    [safetyMode |-> Undefined, requireConfirmation |-> <<UpperSendTrigger>>]

\* Config objects saveVault is called with ('computer-use-vault-save').
Configs ==
    {FullAutoVault.saved,
     CustomVault.saved,
     PartialConfig}

\* afterLoadVault persisting the saved mode 'full-auto' in place of the
\* defaults.
afterLoadVault_SavesFullAuto(file) ==
    IF file.state = "valid" THEN file ELSE FullAutoVault

\* The vault file after loadVault(): a file that cannot be read or parsed
\* is replaced by the defaults (saveVault(DEFAULT_VAULT)).
afterLoadVault(file) ==
    IF file.state = "valid" THEN file ELSE saveVault(DEFAULT_VAULT)

\* ----------------------------------------------------------------- oracle
\* getAIConfig().provider, read from the environment and the config files
\* at every call: a direct HTTP provider (anthropic, openai, google and
\* ollama send the payload in the request body), or the gateway, the
\* default when no key is configured.
Providers == {"anthropic", "gateway"}

\* callGateway tries callGatewayCLI first, which saves the screenshot to
\* os.tmpdir() before it starts the CLI, and unlinks it in the callback.
WritesTempFile(p) == p = "gateway"

\* No vault check has been called.
NoCall == [fn |-> "none"]

\* ----------------------------------------------------------- parseAction
\* The text of the oracle's response is a sequence of characters.  JSON
\* values carry their type: a string or a number its characters, an object
\* its key/value pairs in the order written.
JValue(type, chars, pairs) == [type |-> type, chars |-> chars, pairs |-> pairs]
JString(chars) == JValue("string", chars, <<>>)
JNumber(chars) == JValue("number", chars, <<>>)
JObject(pairs) == JValue("object", <<>>, pairs)
JLiteral(name) == JValue(name, <<>>, <<>>)
JUndefined == JValue("undefined", <<>>, <<>>)

\* What a step of the JSON parser returns: the value read and the position
\* after it, or a SyntaxError.
Parsed(value, next) == [ok |-> TRUE, value |-> value, next |-> next]
SyntaxError == [ok |-> FALSE, value |-> JUndefined, next |-> 0]

\* Whitespace between the tokens of JSON.
JsonWhitespace == {" ", "\t", "\n", "\r"}

RECURSIVE SkipWhitespace(_, _)
SkipWhitespace(s, i) ==
    IF i <= Len(s) /\ s[i] \in JsonWhitespace THEN SkipWhitespace(s, i + 1)
    ELSE i

\* s has the characters of word at position i.
HasAt(s, i, word) ==
    /\ i + Len(word) - 1 <= Len(s)
    /\ \A k \in 1..Len(word) : s[i + k - 1] = word[k]

\* A JSON string at position i.  The responses of the model hold no escape
\* sequence; a control character inside a string is a SyntaxError.
ParseString(s, i) ==
    IF i > Len(s) \/ s[i] # "\""
    THEN SyntaxError
    ELSE LET closing == {j \in (i + 1)..Len(s) : s[j] = "\""}
         IN IF closing = {}
            THEN SyntaxError
            ELSE LET j == CHOOSE j \in closing : \A k \in closing : j <= k
                 IN IF \E m \in (i + 1)..(j - 1) :
                           s[m] \in {"\\", "\n", "\r", "\t"}
                    THEN SyntaxError
                    ELSE Parsed(JString(SubSeq(s, i + 1, j - 1)), j + 1)

\* A JSON number at position i: the responses of the model hold
\* non-negative integers only.
RECURSIVE DigitsEnd(_, _)
DigitsEnd(s, i) ==
    IF i <= Len(s) /\ s[i] \in Digits THEN DigitsEnd(s, i + 1) ELSE i

ParseNumber(s, i) ==
    IF s[i] = "0" THEN Parsed(JNumber(<<"0">>), i + 1)
    ELSE Parsed(JNumber(SubSeq(s, i, DigitsEnd(s, i) - 1)), DigitsEnd(s, i))

ParseLiteral(s, i) ==
    IF HasAt(s, i, <<"t","r","u","e">>) THEN Parsed(JLiteral("true"), i + 4)
    ELSE IF HasAt(s, i, <<"f","a","l","s","e">>) THEN Parsed(JLiteral("false"), i + 5)
    ELSE IF HasAt(s, i, <<"n","u","l","l">>) THEN Parsed(JLiteral("null"), i + 4)
    ELSE SyntaxError

RECURSIVE ParseValue(_, _)
RECURSIVE ParsePairs(_, _, _)

\* The members of an object from position i on, up to its closing brace.
ParsePairs(s, i, pairs) ==
    LET key == ParseString(s, i)
        colon == SkipWhitespace(s, key.next)
        value == ParseValue(s, SkipWhitespace(s, colon + 1))
        after == SkipWhitespace(s, value.next)
        all == Append(pairs, [key |-> key.value.chars, value |-> value.value])
    IN IF ~key.ok THEN SyntaxError
       ELSE IF colon > Len(s) \/ s[colon] # ":" THEN SyntaxError
       ELSE IF ~value.ok THEN SyntaxError
       ELSE IF after > Len(s) THEN SyntaxError
       ELSE IF s[after] = "," THEN ParsePairs(s, SkipWhitespace(s, after + 1), all)
       ELSE IF s[after] = "}" THEN Parsed(JObject(all), after + 1)
       ELSE SyntaxError

ParseObject(s, i) ==
    LET first == SkipWhitespace(s, i + 1)
    IN IF first <= Len(s) /\ s[first] = "}"
       THEN Parsed(JObject(<<>>), first + 1)
       ELSE ParsePairs(s, first, <<>>)

ParseValue(s, i) ==
    IF i > Len(s) THEN SyntaxError
    ELSE IF s[i] = "{" THEN ParseObject(s, i)
    ELSE IF s[i] = "\"" THEN ParseString(s, i)
    ELSE IF s[i] \in Digits THEN ParseNumber(s, i)
    ELSE ParseLiteral(s, i)

\* JSON.parse(s): one value, with nothing but whitespace around it.
JSONparse(s) ==
    LET value == ParseValue(s, SkipWhitespace(s, 1))
    IN IF value.ok /\ SkipWhitespace(s, value.next) = Len(s) + 1
       THEN value ELSE SyntaxError

\* parsed[key]: the value of the last member with this key.
Get(object, key) ==
    LET at == {i \in 1..Len(object.pairs) : object.pairs[i].key = key}
    IN IF at = {} THEN JUndefined
       ELSE object.pairs[CHOOSE i \in at : \A k \in at : k <= i].value

\* A value in a boolean context (!value, value || other).
Truthy(value) ==
    CASE value.type = "string" -> value.chars # <<>>
      [] value.type = "number" -> value.chars # <<"0">>
      [] value.type \in {"object", "true"} -> TRUE
      [] OTHER -> FALSE

\* A value interpolated into a template literal: String(value).
toStringOf(value) ==
    CASE value.type \in {"string", "number"} -> value.chars
      [] value.type = "object" -> <<"[","o","b","j","e","c","t"," ","O","b","j","e","c","t","]">>
      [] value.type = "true" -> <<"t","r","u","e">>
      [] value.type = "false" -> <<"f","a","l","s","e">>
      [] value.type = "null" -> <<"n","u","l","l">>
      [] OTHER -> <<"u","n","d","e","f","i","n","e","d">>

\* The backtick character, spelled out (a backtick inside a string opens a
\* quotation for the pretty-printer).
Backtick == "backtick"

\* String.prototype.trim
RECURSIVE trimStart(_)
trimStart(s) ==
    IF s # <<>> /\ Head(s) \in Whitespace THEN trimStart(Tail(s)) ELSE s
RECURSIVE trimEnd(_)
trimEnd(s) ==
    IF s # <<>> /\ s[Len(s)] \in Whitespace
    THEN trimEnd(SubSeq(s, 1, Len(s) - 1)) ELSE s
trim(s) == trimEnd(trimStart(s))

\* text.replace(/^<fence>\s*/i, '')
StripLeading(s, fence) ==
    IF /\ Len(s) >= Len(fence)
       /\ \A k \in 1..Len(fence) : LowerChar(s[k]) = LowerChar(fence[k])
    THEN trimStart(SubSeq(s, Len(fence) + 1, Len(s)))
    ELSE s

\* text.replace(/\s*<fence>$/i, ''), the fence being three backticks
StripTrailing(s) ==
    IF Len(s) >= 3 /\ HasAt(s, Len(s) - 2, <<Backtick,Backtick,Backtick>>)
    THEN trimEnd(SubSeq(s, 1, Len(s) - 3))
    ELSE s

\* The three replace calls that strip a markdown code block.
StripCodeBlock(s) ==
    StripTrailing(StripLeading(StripLeading(s, <<Backtick,Backtick,Backtick,"j","s","o","n">>), <<Backtick,Backtick,Backtick>>))

\* text.match(/\{[\s\S]*\}/): from the first '{' to the last '}', when the
\* one comes before the other.
jsonMatch(text) ==
    LET opening == {i \in 1..Len(text) : text[i] = "{"}
        closing == {i \in 1..Len(text) : text[i] = "}"}
        first == CHOOSE i \in opening : \A k \in opening : i <= k
        last == CHOOSE i \in closing : \A k \in closing : k <= i
    IN IF opening = {} \/ closing = {} THEN <<>>
       ELSE IF last < first THEN <<>>
       ELSE SubSeq(text, first, last)

\* text.substring(0, 200)
RAW_LIMIT == 200
substring(text) ==
    SubSeq(text, 1, IF Len(text) < RAW_LIMIT THEN Len(text) ELSE RAW_LIMIT)

validActions ==
    { <<"c","l","i","c","k">>,
      <<"d","r","a","g">>,
      <<"t","y","p","e">>,
      <<"k","e","y">>,
      <<"s","c","r","o","l","l">>,
      <<"o","p","e","n","_","a","p","p">>,
      <<"o","p","e","n","_","u","r","l">>,
      <<"f","i","n","d","_","a","n","d","_","c","l","i","c","k">>,
      <<"w","i","n","d","o","w">>,
      <<"w","a","i","t">>,
      <<"d","o","n","e">>,
      <<"e","r","r","o","r">> }
ErrorAction == <<"e","r","r","o","r">>

\* A message built by a template literal: the fixed text of the template
\* and the text interpolated into it.
Message(template, interpolated) ==
    [template |-> template, interpolated |-> interpolated]

\* The { thought, action, params } parseAction returns.
ParsedAction(thought, action, params) ==
    [thought |-> thought, action |-> action, params |-> params]
ParseFailure(thought, message) ==
    ParsedAction(thought, ErrorAction, [message |-> message])

parseAction(responseText) ==
    LET text == StripCodeBlock(trim(responseText))
        match == jsonMatch(text)
        json == JSONparse(match)
        parsed == json.value
        thought == Get(parsed, <<"t","h","o","u","g","h","t">>)
        action == Get(parsed, <<"a","c","t","i","o","n">>)
        params == Get(parsed, <<"p","a","r","a","m","s">>)
    IN IF match = <<>>
       THEN ParseFailure(JString(<<"F","a","i","l","e","d"," ","t","o"," ","p","a","r","s","e"," ","A","I"," ","r","e","s","p","o","n","s","e">>),
                         Message("AI returned non-JSON: ", substring(text)))
       ELSE IF ~json.ok
       THEN ParseFailure(JString(<<"J","S","O","N"," ","p","a","r","s","e"," ","e","r","r","o","r">>),
                         Message("Failed to parse JSON: SyntaxError. Raw: ",
                                 substring(text)))
       ELSE IF ~Truthy(action)
       THEN ParseFailure(IF Truthy(thought) THEN thought ELSE JString(<<"N","o"," ","a","c","t","i","o","n">>),
                         Message("AI response missing \"action\" field", <<>>))
       ELSE IF ~(action.type = "string" /\ action.chars \in validActions)
       THEN ParseFailure(IF Truthy(thought) THEN thought ELSE JString(<<>>),
                         Message("Unknown action: ", toStringOf(action)))
       ELSE ParsedAction(IF Truthy(thought) THEN thought ELSE JString(<<>>),
                         action.chars,
                         IF Truthy(params) THEN params ELSE JObject(<<>>))

\* Responses of the oracle.
\* a well-formed click
ClickResponse == <<"{","\"","t","h","o","u","g","h","t","\"",":","\"","o","p","e","n"," ","i","t","\"",",","\"","a","c","t","i","o","n","\"",":","\"","c","l","i","c","k","\"",",","\"","p","a","r","a","m","s","\"",":","{","\"","x","\"",":","1",",","\"","y","\"",":","2","}","}">>
\* a well-formed done, with spaces
DoneResponse == <<"{","\"","a","c","t","i","o","n","\"",":"," ","\"","d","o","n","e","\"",","," ","\"","p","a","r","a","m","s","\"",":"," ","{","\"","s","u","m","m","a","r","y","\"",":"," ","\"","o","p","e","n","e","d","\"","}","}">>
\* no JSON object
RefusalResponse == <<"I"," ","c","a","n","n","o","t"," ","h","e","l","p"," ","w","i","t","h"," ","t","h","a","t">>
\* an object that is never closed
OpenBraceResponse == <<"{","\"","a","c","t","i","o","n","\"",":","\"","c","l","i","c","k","\"">>
\* an object that is not JSON
BareWordResponse == <<"{","\"","a","c","t","i","o","n","\"",":","c","l","i","c","k","}">>
\* two objects in one response
TwoObjectsResponse == <<"{","\"","a","c","t","i","o","n","\"",":","\"","c","l","i","c","k","\"","}"," ","t","h","e","n"," ","{","\"","a","c","t","i","o","n","\"",":","\"","d","o","n","e","\"","}">>
\* an object without an action
NoActionResponse == <<"{","\"","t","h","o","u","g","h","t","\"",":","\"","h","m","m","\"","}">>
\* an object with an empty action
EmptyActionResponse == <<"{","\"","t","h","o","u","g","h","t","\"",":","\"","\"",",","\"","a","c","t","i","o","n","\"",":","\"","\"","}">>
\* an action that is not one of the kinds
FlyResponse == <<"{","\"","a","c","t","i","o","n","\"",":","\"","f","l","y","\"","}">>
\* an action that is not a string
NumberActionResponse == <<"{","\"","a","c","t","i","o","n","\"",":","5",",","\"","p","a","r","a","m","s","\"",":","n","u","l","l","}">>

\* n times the character c
Repeat(c, n) == [i \in 1..n |-> c]
\* Longer than the 200 characters an error message quotes.
LongLength == 250
\* a long answer with no JSON object, and a long unknown action
LongRefusalResponse == Repeat("x", LongLength)
LongActionResponse ==
    <<"{","\"","a","c","t","i","o","n","\"",":","\"">> \o Repeat("x", LongLength) \o <<"\"","}">>

ResponseBodies ==
    {ClickResponse, DoneResponse, RefusalResponse,
     OpenBraceResponse, BareWordResponse, TwoObjectsResponse,
     NoActionResponse, EmptyActionResponse, FlyResponse,
     NumberActionResponse, LongRefusalResponse, LongActionResponse}
\* What providers put before and after the object.
ResponsePrefixes == {<<>>, <<Backtick,Backtick,Backtick,"j","s","o","n","\n">>, <<Backtick,Backtick,Backtick,"\n">>, <<"S","u","r","e","."," ">>}
ResponseSuffixes == {<<>>, <<"\n",Backtick,Backtick,Backtick>>, <<" ","o","k","\n">>}
Responses ==
    {before \o body \o after :
        before \in ResponsePrefixes, body \in ResponseBodies,
        after \in ResponseSuffixes}

\* ---------------------------------------------------- the mouse (screen.cjs)
\* getScreenSize(): 1920x1080 on a common display; the model's screen is
\* smaller.
ScreenWidth == 2
ScreenHeight == 1
getScreenSize == [width |-> ScreenWidth, height |-> ScreenHeight]

\* Coordinates callers pass: whole numbers from one left of (above) the
\* screen to one past its right (bottom) edge.  Math.round leaves them as
\* they are.
XCoordinates == -1..(ScreenWidth + 1)
YCoordinates == -1..(ScreenHeight + 1)

\* The call threw before input.ps1 was started, or input.ps1 was started
\* with these arguments.
Threw == [invoked |-> FALSE, args |-> <<>>]
Invoked(args) == [invoked |-> TRUE, args |-> args]

\* x < 0 || x > width || y < 0 || y > height
OutOfBounds(x, y) ==
    \/ x < 0
    \/ x > getScreenSize.width
    \/ y < 0
    \/ y > getScreenSize.height

\* click(x, y), with the left button
click(x, y) ==
    IF OutOfBounds(x, y) THEN Threw ELSE Invoked(<<"leftclick", x, y>>)

\* moveMouse(x, y)
moveMouse(x, y) == Invoked(<<"move", x, y>>)

\* drag(x1, y1, x2, y2)
drag(x1, y1, x2, y2) ==
    IF OutOfBounds(x1, y1) THEN Threw
    ELSE IF OutOfBounds(x2, y2) THEN Threw
    ELSE Invoked(<<"drag", x1, y1, x2, y2>>)

\* --------------------------------------------------- the browser agent
\* new WebNavigator({ askAI }): the fields run() reads and writes; at is
\* the call run() is awaiting and result what its promise resolved to.
WebNavigator ==
    [running |-> FALSE, steps |-> <<>>, stepCount |-> 0, at |-> "idle",
     result |-> NoResult]

\* A page no human-like input call has touched.
BlankPage == [fn |-> "none", at |-> "returned"]

\* ------------------------------------------- the main process's agents
\* Instances the main process creates in one model run.
MaxAgents == 2
Agents == 1..MaxAgents

\* let cuAgent = null
NoAgent == 0

\* new ComputerUseAgent(): the fields the loop reads and writes; at is the
\* call the instance's run() is awaiting and attempt the counter of the
\* retry loop around it.
ComputerUseAgent ==
    [running |-> FALSE, stepCount |-> 0, lastScreenshotHash |-> "",
     sameScreenCount |-> 0, at |-> "idle", attempt |-> 0]

\* ------------------------------------------------------------------ state
VARIABLES
    running,             \* this.running
    paused,              \* this.paused
    goal,                \* this.goal
    steps,               \* this.steps
    stepCount,           \* this.stepCount
    lastScreenshotHash,  \* this.lastScreenshotHash
    sameScreenCount,     \* this.sameScreenCount
    errorListener,       \* a listener is registered for the 'error' event
    vaultFile,           \* ~/.korvus/vault.json
    pc,                  \* the call each activation of run() is awaiting
    attempt,             \* the retry loop's attempt counter of each activation
    decision,            \* the local decision of each activation
    result,              \* how the promise of each activation settled
    emitted,             \* terminal lifecycle events each activation emitted
    tmpFile,             \* the temp file of each activation's oracle call exists
    delivered,           \* times the input primitive of each activation's
                         \* current decision has acted on the desktop
    gate,                \* the latest call of a vault check and what it returned
    cuAgent,             \* the main process's agent instance (NoAgent: null)
    agents,              \* the ComputerUseAgent instances the main process made
    navigator,           \* a WebNavigator instance and the run() it is in
    page                 \* a browser page under the human-like input calls

vars == <<running, paused, goal, steps, stepCount, lastScreenshotHash,
          sameScreenCount, errorListener, vaultFile, pc, attempt, decision,
          result, emitted, tmpFile, delivered, gate, cuAgent, agents,
          navigator, page>>

agentFields == <<goal, steps, stepCount, lastScreenshotHash, sameScreenCount>>
mainProcess == <<cuAgent, agents>>
browserAgent == <<navigator, page>>
environment == <<errorListener, vaultFile, gate, mainProcess, browserAgent>>

InProgress(l) == pc[l] \notin {"idle", "returned"}

Init ==
    /\ running = FALSE
    /\ paused = FALSE
    /\ goal = ""
    /\ steps = <<>>
    /\ stepCount = 0
    /\ lastScreenshotHash = ""
    /\ sameScreenCount = 0
    /\ errorListener \in BOOLEAN
    /\ vaultFile = SavedVault
    /\ pc = [l \in Loops |-> "idle"]
    /\ attempt = [l \in Loops |-> 0]
    /\ decision = [l \in Loops |-> NoDecision]
    /\ result = [l \in Loops |-> NoResult]
    /\ emitted = [l \in Loops |-> <<>>]
    /\ tmpFile = [l \in Loops |-> FALSE]
    /\ delivered = [l \in Loops |-> 0]
    /\ gate = NoCall
    /\ cuAgent = NoAgent
    /\ agents = [a \in Agents |-> ComputerUseAgent]
    /\ navigator = WebNavigator
    /\ page = BlankPage

\* ------------------------------------------------------- leaving run()
\* The promise of activation l settles with res; evs are the terminal events
\* emitted on the way.  The locals of the activation are gone.
Exit(l, res, stillRunning, evs) ==
    /\ pc' = [pc EXCEPT ![l] = "returned"]
    /\ attempt' = [attempt EXCEPT ![l] = 0]
    /\ decision' = [decision EXCEPT ![l] = NoDecision]
    /\ result' = [result EXCEPT ![l] = res]
    /\ running' = stillRunning
    /\ emitted' = [emitted EXCEPT ![l] = @ \o evs]
    /\ tmpFile' = [tmpFile EXCEPT ![l] = FALSE]
    /\ delivered' = [delivered EXCEPT ![l] = 0]

\* catch (e): running = false, emit('error'), return the failure.  With no
\* listener for 'error' the emit throws out of the catch block.
CatchExit(l, message, n) ==
    IF errorListener
    THEN Exit(l, Returned(FALSE, message, n), FALSE, <<"error">>)
    ELSE Exit(l, Rejected, FALSE, <<>>)

\* emit('error') followed by a return inside the try block; clears tells
\* whether this.running = false stands between the two.  With no listener
\* the emit throws and the catch block takes over.
ErrorExit(l, summary, n, clears) ==
    IF errorListener
    THEN Exit(l, Returned(FALSE, summary, n),
              IF clears THEN FALSE ELSE running, <<"error">>)
    ELSE CatchExit(l, "Unhandled error", n)

\* After the while loop: budget exceeded, or stopped.
AfterLoop(l) ==
    IF stepCount >= MAX_STEPS
    THEN ErrorExit(l, BudgetSummary, stepCount, TRUE)
    ELSE Exit(l, Returned(FALSE, StoppedSummary, stepCount), FALSE,
              <<"stopped">>)

\* Activation l goes on to await the call `where`, at attempt att, with d
\* as its local decision.
Goto(l, where, att, d) ==
    /\ pc' = [pc EXCEPT ![l] = where]
    /\ attempt' = [attempt EXCEPT ![l] = att]
    /\ decision' = [decision EXCEPT ![l] = d]
    /\ tmpFile' = [tmpFile EXCEPT ![l] = FALSE]
    /\ delivered' = [delivered EXCEPT ![l] = 0]
    /\ UNCHANGED <<running, result, emitted>>

\* Activation l calls vision.analyzeScreen, at attempt att; getAIConfig()
\* resolves to provider p for this call.
CallOracle(l, att, p) ==
    /\ pc' = [pc EXCEPT ![l] = "analyze"]
    /\ attempt' = [attempt EXCEPT ![l] = att]
    /\ decision' = [decision EXCEPT ![l] = NoDecision]
    /\ tmpFile' = [tmpFile EXCEPT ![l] = WritesTempFile(p)]
    /\ delivered' = [delivered EXCEPT ![l] = 0]
    /\ UNCHANGED <<running, result, emitted>>

\* The head of the while loop, up to the next await.
LoopTop(l) ==
    IF running /\ stepCount < MAX_STEPS
    THEN IF paused THEN Goto(l, "pausePoll", 0, NoDecision)
                   ELSE Goto(l, "screenshot", 0, NoDecision)
    ELSE AfterLoop(l)

\* ---------------------------------------------------------------- run()
\* The activation record a new run() call uses.
FreeSlot(l) == /\ ~InProgress(l)
               /\ \A k \in Loops : k < l => InProgress(k)

\* RunRejected with the goal test placed after the reset of the fields.
RunRejected_ResetFirst(g) ==
    /\ running \/ Trim(g) = ""
    /\ IF running
       THEN UNCHANGED <<paused, agentFields>>
       ELSE /\ paused' = FALSE
            /\ goal' = ""
            /\ steps' = <<>>
            /\ stepCount' = 0
            /\ lastScreenshotHash' = ""
            /\ sameScreenCount' = 0
    /\ UNCHANGED <<running, environment, pc, attempt, decision, result,
                   emitted, tmpFile, delivered>>

\* if (this.running) throw ...; if (!goal || goal.trim().length === 0) throw ...
RunRejected(g) ==
    /\ running \/ Trim(g) = ""
    /\ UNCHANGED vars

Run(l, g) ==
    /\ ~running
    /\ Trim(g) # ""
    /\ FreeSlot(l)
    /\ running' = TRUE
    /\ paused' = FALSE
    /\ goal' = Trim(g)
    /\ steps' = <<>>
    /\ stepCount' = 0
    /\ lastScreenshotHash' = ""
    /\ sameScreenCount' = 0
    /\ pc' = [pc EXCEPT ![l] = "screenshot"]
    /\ attempt' = [attempt EXCEPT ![l] = 0]
    /\ decision' = [decision EXCEPT ![l] = NoDecision]
    /\ result' = [result EXCEPT ![l] = NoResult]
    /\ emitted' = [emitted EXCEPT ![l] = <<>>]
    /\ tmpFile' = [tmpFile EXCEPT ![l] = FALSE]
    /\ delivered' = [delivered EXCEPT ![l] = 0]
    /\ UNCHANGED environment

\* ------------------------------------------------------------ the cycle
\* await screen.wait(200) in the pause loop is over.
PausePoll(l) ==
    /\ pc[l] = "pausePoll"
    /\ IF paused /\ running
       THEN UNCHANGED <<pc, attempt, decision, running, result, emitted,
                        tmpFile, delivered>>
       ELSE IF ~running
            THEN AfterLoop(l)
            ELSE Goto(l, "screenshot", 0, NoDecision)
    /\ UNCHANGED <<paused, agentFields, environment>>

\* screen.screenshot() resolved with a payload of fingerprint h; stuck
\* detection; screen.listElements() (best effort, nothing of the agent read
\* or written); then vision.analyzeScreen is called, with provider p.
ScreenshotOk(l, h, p) ==
    /\ pc[l] = "screenshot"
    /\ IF h = lastScreenshotHash
       THEN /\ sameScreenCount' = sameScreenCount + 1
            /\ IF sameScreenCount + 1 >= STUCK_THRESHOLD
               THEN /\ ErrorExit(l, StuckSummary, stepCount, TRUE)
                    /\ UNCHANGED lastScreenshotHash
               ELSE /\ lastScreenshotHash' = h
                    /\ CallOracle(l, 0, p)
       ELSE /\ sameScreenCount' = 0
            /\ lastScreenshotHash' = h
            /\ CallOracle(l, 0, p)
    /\ UNCHANGED <<paused, goal, steps, stepCount, environment>>

\* screen.screenshot() rejected: give up after the last attempt, else wait
\* 500 ms and call it again.
ScreenshotFail(l) ==
    /\ pc[l] = "screenshot"
    /\ IF attempt[l] = MAX_SCREENSHOT_RETRIES
       THEN ErrorExit(l, ScreenshotSummary, stepCount, FALSE)
       ELSE Goto(l, "screenshot", attempt[l] + 1, NoDecision)
    /\ UNCHANGED <<paused, agentFields, environment>>

\* AnalyzeOk with the test for the 'error' action left out.
AnalyzeOk_ErrorNotTerminal(l, d) ==
    /\ pc[l] = "analyze"
    /\ stepCount' = stepCount + 1
    /\ steps' = Append(steps, Step(d))
    /\ IF d.action = "done"
       THEN Exit(l, Returned(TRUE, summaryOf(d), stepCount + 1), FALSE,
                 <<"done">>)
       ELSE Goto(l, "execute", 0, d)
    /\ UNCHANGED <<paused, goal, lastScreenshotHash, sameScreenCount,
                   environment>>

\* AnalyzeOk returning the default summary for every done decision.
AnalyzeOk_DefaultSummary(l, d) ==
    /\ pc[l] = "analyze"
    /\ stepCount' = stepCount + 1
    /\ steps' = Append(steps, Step(d))
    /\ IF d.action = "done"
       THEN Exit(l, Returned(TRUE, DoneSummary, stepCount + 1), FALSE,
                 <<"done">>)
       ELSE IF d.action = "error"
            THEN ErrorExit(l, OracleErrorSummary, stepCount + 1, TRUE)
            ELSE Goto(l, "execute", 0, d)
    /\ UNCHANGED <<paused, goal, lastScreenshotHash, sameScreenCount,
                   environment>>

\* vision.analyzeScreen resolved with decision d.
AnalyzeOk(l, d) ==
    /\ pc[l] = "analyze"
    /\ stepCount' = stepCount + 1
    /\ steps' = Append(steps, Step(d))
    /\ IF d.action = "done"
       THEN Exit(l, Returned(TRUE, summaryOf(d), stepCount + 1), FALSE,
                 <<"done">>)
       ELSE IF d.action = "error"
            THEN ErrorExit(l, OracleErrorSummary, stepCount + 1, TRUE)
            ELSE Goto(l, "execute", 0, d)
    /\ UNCHANGED <<paused, goal, lastScreenshotHash, sameScreenCount,
                   environment>>

\* vision.analyzeScreen rejected: give up after the last attempt, else emit
\* a retry step event, wait 1000 ms and call it again, with provider p.
AnalyzeFail(l, p) ==
    /\ pc[l] = "analyze"
    /\ IF attempt[l] = MAX_AI_RETRIES
       THEN ErrorExit(l, AISummary, stepCount, FALSE)
       ELSE CallOracle(l, attempt[l] + 1, p)
    /\ UNCHANGED <<paused, agentFields, environment>>

\* this.executeAction resolved; the settle delay is computed from the
\* decision and awaited.
ExecuteOk(l) ==
    /\ pc[l] = "execute"
    /\ Goto(l, "settle", 0, NoDecision)
    /\ UNCHANGED <<paused, agentFields, environment>>

\* MarkFailed recording the recovery as a step of its own.
MarkFailed_Appends(ss) ==
    Append(ss, [ss[Len(ss)] EXCEPT !.failed = @ + 1])

\* this.steps[this.steps.length - 1].thought += ' [FAILED: ...]'
MarkFailed(ss) ==
    [ss EXCEPT ![Len(ss)] = [@ EXCEPT !.failed = @ + 1]]

\* Activation l waits 300 ms and calls this.executeAction again with the
\* same decision; performed tells whether the attempt that failed had
\* acted on the desktop before it failed.
Retry(l, performed) ==
    /\ pc' = [pc EXCEPT ![l] = "execute"]
    /\ attempt' = [attempt EXCEPT ![l] = @ + 1]
    /\ delivered' = [delivered EXCEPT ![l] = IF performed THEN @ + 1 ELSE @]
    /\ UNCHANGED <<decision, tmpFile, running, result, emitted>>

\* this.executeAction rejected, before the input primitive acted (a
\* validation error, a script that could not be started) or after it (the
\* PowerShell process exceeded its timeout or exited with an error once the
\* input was sent): wait 300 ms and call it again, or after the last
\* attempt mark the latest step failed and go on to the settle delay.  With
\* this.steps empty the marking throws a TypeError.
ExecuteFail(l, performed) ==
    /\ pc[l] = "execute"
    /\ IF attempt[l] = MAX_ACTION_RETRIES
       THEN IF steps = <<>>
            THEN /\ CatchExit(l, TypeErrorSummary, stepCount)
                 /\ UNCHANGED steps
            ELSE /\ steps' = MarkFailed(steps)
                 /\ Goto(l, "settle", 0, NoDecision)
       ELSE /\ Retry(l, performed)
            /\ UNCHANGED steps
    /\ UNCHANGED <<paused, goal, stepCount, lastScreenshotHash, sameScreenCount,
                   environment>>

\* The settle delay is over: back to the head of the loop.
Settle(l) ==
    /\ pc[l] = "settle"
    /\ LoopTop(l)
    /\ UNCHANGED <<paused, agentFields, environment>>

\* ------------------------------------------------- stop, pause, resume
Stop ==
    /\ running' = FALSE
    /\ paused' = FALSE
    /\ UNCHANGED <<agentFields, environment, pc, attempt, decision, result,
                   emitted, tmpFile, delivered>>

Pause ==
    /\ paused' = TRUE
    /\ UNCHANGED <<running, agentFields, environment, pc, attempt, decision,
                   result, emitted, tmpFile, delivered>>

Resume ==
    /\ paused' = FALSE
    /\ UNCHANGED <<running, agentFields, environment, pc, attempt, decision,
                   result, emitted, tmpFile, delivered>>

Next ==
    \/ \E g \in Goals : RunRejected(g)
    \/ \E l \in Loops, g \in Goals : Run(l, g)
    \/ \E l \in Loops : PausePoll(l)
    \/ \E l \in Loops, h \in Fingerprints, p \in Providers : ScreenshotOk(l, h, p)
    \/ \E l \in Loops : ScreenshotFail(l)
    \/ \E l \in Loops, d \in OracleDecisions : AnalyzeOk(l, d)
    \/ \E l \in Loops, p \in Providers : AnalyzeFail(l, p)
    \/ \E l \in Loops : ExecuteOk(l)
    \/ \E l \in Loops, performed \in BOOLEAN : ExecuteFail(l, performed)
    \/ \E l \in Loops : Settle(l)
    \/ Stop
    \/ Pause
    \/ Resume

Spec == Init /\ [][Next]_vars

\* ------------------------------------------------------ the vault checks
\* The checks of vault.cjs called on an agent that has not been started:
\* each call reads the vault file (creating it when it is missing) and
\* returns its verdict.
loopState == <<running, paused, agentFields, errorListener, pc, attempt,
               decision, result, emitted, tmpFile, delivered, mainProcess,
               browserAgent>>

VaultInit ==
    /\ running = FALSE
    /\ paused = FALSE
    /\ goal = ""
    /\ steps = <<>>
    /\ stepCount = 0
    /\ lastScreenshotHash = ""
    /\ sameScreenCount = 0
    /\ errorListener = TRUE
    /\ vaultFile \in VaultFiles
    /\ pc = [l \in Loops |-> "idle"]
    /\ attempt = [l \in Loops |-> 0]
    /\ decision = [l \in Loops |-> NoDecision]
    /\ result = [l \in Loops |-> NoResult]
    /\ emitted = [l \in Loops |-> <<>>]
    /\ tmpFile = [l \in Loops |-> FALSE]
    /\ delivered = [l \in Loops |-> 0]
    /\ gate = NoCall
    /\ cuAgent = NoAgent
    /\ agents = [a \in Agents |-> ComputerUseAgent]
    /\ navigator = WebNavigator
    /\ page = BlankPage

\* The call fn(thought, action, param, process) returned r.
Call(fn, th, a, p, proc, r) ==
    [fn |-> fn, thought |-> th, action |-> a, param |-> p, process |-> proc,
     result |-> r]

CheckApp(proc) ==
    /\ gate' = Call("checkApp", <<>>, "", <<>>, proc, checkApp(vaultFile, proc))
    /\ vaultFile' = IF proc = <<>> THEN vaultFile ELSE afterLoadVault(vaultFile)
    /\ UNCHANGED loopState

CheckUrl(url) ==
    /\ gate' = Call("checkUrl", <<>>, "", url, <<>>, checkUrl(vaultFile, url))
    /\ vaultFile' = IF url = <<>> THEN vaultFile ELSE afterLoadVault(vaultFile)
    /\ UNCHANGED loopState

CheckText(text) ==
    /\ gate' = Call("checkText", <<>>, "", text, <<>>, checkText(vaultFile, text))
    /\ vaultFile' = IF text = <<>> THEN vaultFile ELSE afterLoadVault(vaultFile)
    /\ UNCHANGED loopState

CheckConfirmation(th, a) ==
    /\ gate' = Call("checkConfirmation", th, a, <<>>, <<>>,
                    checkConfirmation(vaultFile, th, a, <<>>))
    /\ vaultFile' = afterLoadVault(vaultFile)
    /\ UNCHANGED loopState

\* Every path of checkAction loads the vault at least once.
CheckAction(d, proc) ==
    /\ gate' = Call("checkAction", d.thought, d.action, d.param, proc,
                    checkAction(vaultFile, d, proc))
    /\ vaultFile' = afterLoadVault(vaultFile)
    /\ UNCHANGED loopState

\* loadVault() called on its own ('computer-use-vault-get').
LoadVault ==
    /\ gate' = [fn |-> "loadVault", result |-> loadVault(vaultFile)]
    /\ vaultFile' = afterLoadVault(vaultFile)
    /\ UNCHANGED loopState

\* saveVault(config) ('computer-use-vault-save').
SaveVault(config) ==
    /\ gate' = [fn |-> "saveVault", config |-> config]
    /\ vaultFile' = saveVault(config)
    /\ UNCHANGED loopState

VaultNext ==
    \/ LoadVault
    \/ \E config \in Configs : SaveVault(config)
    \/ \E proc \in Processes : CheckApp(proc)
    \/ \E url \in Urls : CheckUrl(url)
    \/ \E text \in DirectTexts : CheckText(text)
    \/ \E th \in Thoughts, a \in {"click", "type"} : CheckConfirmation(th, a)
    \/ \E d \in GateDecisions, proc \in GateProcesses : CheckAction(d, proc)

VaultSpec == VaultInit /\ [][VaultNext]_vars

\* --------------------------------------------------- the oracle boundary
\* vision.parseAction called on the text a provider returned, on an agent
\* that has not been started.
OracleInit ==
    /\ running = FALSE
    /\ paused = FALSE
    /\ goal = ""
    /\ steps = <<>>
    /\ stepCount = 0
    /\ lastScreenshotHash = ""
    /\ sameScreenCount = 0
    /\ errorListener = TRUE
    /\ vaultFile = SavedVault
    /\ pc = [l \in Loops |-> "idle"]
    /\ attempt = [l \in Loops |-> 0]
    /\ decision = [l \in Loops |-> NoDecision]
    /\ result = [l \in Loops |-> NoResult]
    /\ emitted = [l \in Loops |-> <<>>]
    /\ tmpFile = [l \in Loops |-> FALSE]
    /\ delivered = [l \in Loops |-> 0]
    /\ gate = NoCall
    /\ cuAgent = NoAgent
    /\ agents = [a \in Agents |-> ComputerUseAgent]
    /\ navigator = WebNavigator
    /\ page = BlankPage

ParseAction(responseText) ==
    /\ gate' = [fn |-> "parseAction", text |-> responseText,
                result |-> parseAction(responseText)]
    /\ UNCHANGED <<loopState, vaultFile>>

OracleNext == \E responseText \in Responses : ParseAction(responseText)

OracleSpec == OracleInit /\ [][OracleNext]_vars

\* ------------------------------------------------------------ the mouse
\* The coordinate-based primitives of screen.cjs called directly, on an
\* agent that has not been started.
ScreenInit ==
    /\ running = FALSE
    /\ paused = FALSE
    /\ goal = ""
    /\ steps = <<>>
    /\ stepCount = 0
    /\ lastScreenshotHash = ""
    /\ sameScreenCount = 0
    /\ errorListener = TRUE
    /\ vaultFile = SavedVault
    /\ pc = [l \in Loops |-> "idle"]
    /\ attempt = [l \in Loops |-> 0]
    /\ decision = [l \in Loops |-> NoDecision]
    /\ result = [l \in Loops |-> NoResult]
    /\ emitted = [l \in Loops |-> <<>>]
    /\ tmpFile = [l \in Loops |-> FALSE]
    /\ delivered = [l \in Loops |-> 0]
    /\ gate = NoCall
    /\ cuAgent = NoAgent
    /\ agents = [a \in Agents |-> ComputerUseAgent]
    /\ navigator = WebNavigator
    /\ page = BlankPage

\* The call fn(points) ended as outcome; points are the <<x, y>> pairs
\* passed.
MouseCall(fn, points, outcome) ==
    [fn |-> fn, points |-> points, outcome |-> outcome]

Click(x, y) ==
    /\ gate' = MouseCall("click", <<(<<x, y>>)>>, click(x, y))
    /\ UNCHANGED <<loopState, vaultFile>>

MoveMouse(x, y) ==
    /\ gate' = MouseCall("moveMouse", <<(<<x, y>>)>>, moveMouse(x, y))
    /\ UNCHANGED <<loopState, vaultFile>>

Drag(x1, y1, x2, y2) ==
    /\ gate' = MouseCall("drag", <<(<<x1, y1>>), (<<x2, y2>>)>>,
                         drag(x1, y1, x2, y2))
    /\ UNCHANGED <<loopState, vaultFile>>

ScreenNext ==
    \/ \E x \in XCoordinates, y \in YCoordinates : Click(x, y)
    \/ \E x \in XCoordinates, y \in YCoordinates : MoveMouse(x, y)
    \/ \E x1, x2 \in XCoordinates, y1, y2 \in YCoordinates :
           Drag(x1, y1, x2, y2)

ScreenSpec == ScreenInit /\ [][ScreenNext]_vars

\* ------------------------------------------------------ the main process
\* The 'computer-use-start' and 'computer-use-stop' handlers of the main
\* process and the loops of the agents they create.  Every agent has
\* listeners for all five events; nothing pauses an agent.
MainInit ==
    /\ running = FALSE
    /\ paused = FALSE
    /\ goal = ""
    /\ steps = <<>>
    /\ stepCount = 0
    /\ lastScreenshotHash = ""
    /\ sameScreenCount = 0
    /\ errorListener = TRUE
    /\ vaultFile = SavedVault
    /\ pc = [l \in Loops |-> "idle"]
    /\ attempt = [l \in Loops |-> 0]
    /\ decision = [l \in Loops |-> NoDecision]
    /\ result = [l \in Loops |-> NoResult]
    /\ emitted = [l \in Loops |-> <<>>]
    /\ tmpFile = [l \in Loops |-> FALSE]
    /\ delivered = [l \in Loops |-> 0]
    /\ gate = NoCall
    /\ cuAgent = NoAgent
    /\ agents = [a \in Agents |-> ComputerUseAgent]
    /\ navigator = WebNavigator
    /\ page = BlankPage

\* What the handlers and the created agents leave alone.
standalone == <<running, paused, agentFields, errorListener, pc, attempt,
                decision, result, emitted, tmpFile, delivered, vaultFile,
                gate, browserAgent>>

\* cuAgent && cuAgent.isRunning()
cuAgentIsRunning == cuAgent # NoAgent /\ agents[cuAgent].running

\* run(g) on a fresh instance, up to its first await: a blank goal rejects
\* the promise before anything is set; else the fields are reset, 'start'
\* is emitted and the first screenshot is requested.
started(g) ==
    IF Trim(g) = ""
    THEN [ComputerUseAgent EXCEPT !.at = "returned"]
    ELSE [ComputerUseAgent EXCEPT !.running = TRUE, !.at = "screenshot"]

\* ipcMain.handle('computer-use-start'): refused while the current agent
\* says it is running; else a new agent replaces it and its run(goal) is
\* called without being awaited.
StartRequest(g) ==
    /\ cuAgent < MaxAgents
    /\ IF cuAgentIsRunning
       THEN UNCHANGED mainProcess
       ELSE /\ cuAgent' = cuAgent + 1
            /\ agents' = [agents EXCEPT ![cuAgent + 1] = started(g)]
    /\ UNCHANGED standalone

\* ipcMain.handle('computer-use-stop'): cuAgent.stop() when the current
\* agent says it is running.
StopRequest ==
    /\ IF cuAgentIsRunning
       THEN agents' = [agents EXCEPT ![cuAgent].running = FALSE]
       ELSE UNCHANGED agents
    /\ UNCHANGED <<cuAgent, standalone>>

\* The run() of agent a goes on as record next.
Becomes(a, next) ==
    /\ agents' = [agents EXCEPT ![a] = next]
    /\ UNCHANGED <<cuAgent, standalone>>

\* return on a path that clears this.running
Cleared(agent) ==
    [agent EXCEPT !.running = FALSE, !.at = "returned", !.attempt = 0]

\* return after the retries of a call are exhausted
GaveUp(agent) == [agent EXCEPT !.at = "returned", !.attempt = 0]

\* The head of the while loop, and what follows the loop.
AgentLoopTop(agent) ==
    IF agent.running /\ agent.stepCount < MAX_STEPS
    THEN [agent EXCEPT !.at = "screenshot", !.attempt = 0]
    ELSE Cleared(agent)

\* screen.screenshot() of agent a resolved with fingerprint h.
AgentScreenshotOk(a, h) ==
    /\ agents[a].at = "screenshot"
    /\ Becomes(a,
         IF h = agents[a].lastScreenshotHash
         THEN IF agents[a].sameScreenCount + 1 >= STUCK_THRESHOLD
              THEN [Cleared(agents[a]) EXCEPT !.sameScreenCount = @ + 1]
              ELSE [agents[a] EXCEPT !.sameScreenCount = @ + 1,
                                     !.at = "analyze", !.attempt = 0]
         ELSE [agents[a] EXCEPT !.sameScreenCount = 0,
                                !.lastScreenshotHash = h,
                                !.at = "analyze", !.attempt = 0])

\* screen.screenshot() of agent a rejected.
AgentScreenshotFail(a) ==
    /\ agents[a].at = "screenshot"
    /\ Becomes(a, IF agents[a].attempt = MAX_SCREENSHOT_RETRIES
                  THEN GaveUp(agents[a])
                  ELSE [agents[a] EXCEPT !.attempt = @ + 1])

\* vision.analyzeScreen of agent a resolved with decision d.
AgentAnalyzeOk(a, d) ==
    /\ agents[a].at = "analyze"
    /\ Becomes(a, IF d.action \in {"done", "error"}
                  THEN [Cleared(agents[a]) EXCEPT !.stepCount = @ + 1]
                  ELSE [agents[a] EXCEPT !.stepCount = @ + 1,
                                         !.at = "execute", !.attempt = 0])

\* vision.analyzeScreen of agent a rejected.
AgentAnalyzeFail(a) ==
    /\ agents[a].at = "analyze"
    /\ Becomes(a, IF agents[a].attempt = MAX_AI_RETRIES
                  THEN GaveUp(agents[a])
                  ELSE [agents[a] EXCEPT !.attempt = @ + 1])

\* this.executeAction of agent a resolved.
AgentExecuteOk(a) ==
    /\ agents[a].at = "execute"
    /\ Becomes(a, [agents[a] EXCEPT !.at = "settle", !.attempt = 0])

\* this.executeAction of agent a rejected.
AgentExecuteFail(a) ==
    /\ agents[a].at = "execute"
    /\ Becomes(a, IF agents[a].attempt = MAX_ACTION_RETRIES
                  THEN [agents[a] EXCEPT !.at = "settle", !.attempt = 0]
                  ELSE [agents[a] EXCEPT !.attempt = @ + 1])

\* The settle delay of agent a is over.
AgentSettle(a) ==
    /\ agents[a].at = "settle"
    /\ Becomes(a, AgentLoopTop(agents[a]))

MainNext ==
    \/ \E g \in Goals : StartRequest(g)
    \/ StopRequest
    \/ \E a \in Agents, h \in Fingerprints : AgentScreenshotOk(a, h)
    \/ \E a \in Agents : AgentScreenshotFail(a)
    \/ \E a \in Agents, d \in OracleDecisions : AgentAnalyzeOk(a, d)
    \/ \E a \in Agents : AgentAnalyzeFail(a)
    \/ \E a \in Agents : AgentExecuteOk(a)
    \/ \E a \in Agents : AgentExecuteFail(a)
    \/ \E a \in Agents : AgentSettle(a)

MainSpec == MainInit /\ [][MainNext]_vars

\* ----------------------------------------------------- stuck detection
\* The stuck detection of the loop on its own: the fields a run() clears
\* and the captures of its cycles, with every cycle that is not stuck going
\* on to the next capture.  gate holds the fingerprints the run has
\* captured and whether it ended as stuck.
MaxCaptures == 7

CaptureInit ==
    /\ running = FALSE
    /\ paused = FALSE
    /\ goal = ""
    /\ steps = <<>>
    /\ stepCount = 0
    /\ lastScreenshotHash \in Fingerprints \cup {""}
    /\ sameScreenCount \in 0..(STUCK_THRESHOLD - 1)
    /\ errorListener = TRUE
    /\ vaultFile = SavedVault
    /\ pc = [l \in Loops |-> "idle"]
    /\ attempt = [l \in Loops |-> 0]
    /\ decision = [l \in Loops |-> NoDecision]
    /\ result = [l \in Loops |-> NoResult]
    /\ emitted = [l \in Loops |-> <<>>]
    /\ tmpFile = [l \in Loops |-> FALSE]
    /\ delivered = [l \in Loops |-> 0]
    /\ gate = NoCall
    /\ cuAgent = NoAgent
    /\ agents = [a \in Agents |-> ComputerUseAgent]
    /\ navigator = WebNavigator
    /\ page = BlankPage

captureRest == <<running, paused, goal, steps, stepCount, errorListener,
                 vaultFile, pc, attempt, decision, result, emitted, tmpFile,
                 delivered, mainProcess, browserAgent>>

\* run(goal) on an agent whose earlier run, if any, is over.
StartRun ==
    /\ lastScreenshotHash' = ""
    /\ sameScreenCount' = 0
    /\ gate' = [fn |-> "run", seen |-> <<>>, stuck |-> FALSE]
    /\ UNCHANGED captureRest

\* Capture counting every capture, changed or not.
Capture_NeverResets(h) ==
    /\ gate.fn = "run"
    /\ ~gate.stuck
    /\ Len(gate.seen) < MaxCaptures
    /\ sameScreenCount' = sameScreenCount + 1
    /\ IF sameScreenCount + 1 >= STUCK_THRESHOLD
       THEN /\ UNCHANGED lastScreenshotHash
            /\ gate' = [gate EXCEPT !.seen = Append(@, h), !.stuck = TRUE]
       ELSE /\ lastScreenshotHash' = h
            /\ gate' = [gate EXCEPT !.seen = Append(@, h)]
    /\ UNCHANGED captureRest

\* The capture of a cycle has fingerprint h.
Capture(h) ==
    /\ gate.fn = "run"
    /\ ~gate.stuck
    /\ Len(gate.seen) < MaxCaptures
    /\ IF h = lastScreenshotHash
       THEN /\ sameScreenCount' = sameScreenCount + 1
            /\ IF sameScreenCount + 1 >= STUCK_THRESHOLD
               THEN /\ UNCHANGED lastScreenshotHash
                    /\ gate' = [gate EXCEPT !.seen = Append(@, h),
                                            !.stuck = TRUE]
               ELSE /\ lastScreenshotHash' = h
                    /\ gate' = [gate EXCEPT !.seen = Append(@, h)]
       ELSE /\ sameScreenCount' = 0
            /\ lastScreenshotHash' = h
            /\ gate' = [gate EXCEPT !.seen = Append(@, h)]
    /\ UNCHANGED captureRest

CaptureNext ==
    \/ StartRun
    \/ \E h \in Fingerprints : Capture(h)

CaptureSpec == CaptureInit /\ [][CaptureNext]_vars

\* --------------------------------------------------- the web navigator
\* WebNavigator.run, one call at a time, with stop() at any moment.  The
\* step budget of the navigator in the model.
NavigatorMaxSteps == 3

NavigatorBudgetSummary == "Max steps reached"
CaptchaSummary == "CAPTCHA detected"
NavigatorAISummary == "AI error"
NavigatorExceptionSummary == "e.message"

\* What parseDecision(aiResponse) can return.
NavigatorDecisions ==
    { Decision("open_url", ExampleUrl),
      Decision("done", NoParam),
      Decision("error", NoParam) }

NavigatorInit ==
    /\ running = FALSE
    /\ paused = FALSE
    /\ goal = ""
    /\ steps = <<>>
    /\ stepCount = 0
    /\ lastScreenshotHash = ""
    /\ sameScreenCount = 0
    /\ errorListener \in BOOLEAN
    /\ vaultFile = SavedVault
    /\ pc = [l \in Loops |-> "idle"]
    /\ attempt = [l \in Loops |-> 0]
    /\ decision = [l \in Loops |-> NoDecision]
    /\ result = [l \in Loops |-> NoResult]
    /\ emitted = [l \in Loops |-> <<>>]
    /\ tmpFile = [l \in Loops |-> FALSE]
    /\ delivered = [l \in Loops |-> 0]
    /\ gate = NoCall
    /\ cuAgent = NoAgent
    /\ agents = [a \in Agents |-> ComputerUseAgent]
    /\ navigator = WebNavigator
    /\ page = BlankPage

\* The navigator goes on as record next.
Navigates(next) ==
    /\ navigator' = next
    /\ UNCHANGED <<running, paused, agentFields, errorListener, pc, attempt,
                   decision, result, emitted, tmpFile, delivered, vaultFile,
                   gate, mainProcess, page>>

\* this.running = false; return { success, result, steps: this.stepCount }
NavigatorReturn(ok, summary) ==
    [navigator EXCEPT !.running = FALSE, !.at = "returned",
                      !.result = Returned(ok, summary, navigator.stepCount)]

\* this.emit('error', ...) and the return that follows it: with no
\* listener the emit throws and the catch block returns e.message.
NavigatorError(summary) ==
    IF errorListener
    THEN NavigatorReturn(FALSE, summary)
    ELSE NavigatorReturn(FALSE, NavigatorExceptionSummary)

\* The head of the while loop and the return after it.
NavigatorLoopTop ==
    IF navigator.running /\ navigator.stepCount < NavigatorMaxSteps
    THEN [navigator EXCEPT !.stepCount = @ + 1, !.at = "page"]
    ELSE NavigatorReturn(FALSE, NavigatorBudgetSummary)

\* run(goal) with askAI set, after the previous call has returned.
NavigatorRun ==
    /\ navigator.at \in {"idle", "returned"}
    /\ ~navigator.running
    /\ Navigates([WebNavigator EXCEPT !.running = TRUE, !.at = "launch"])

\* browser.isRunning() / await browser.launch() is over.
NavigatorLaunch(ok) ==
    /\ navigator.at = "launch"
    /\ Navigates(IF ok THEN NavigatorLoopTop
                 ELSE NavigatorReturn(FALSE, NavigatorExceptionSummary))

\* analyzer.getPageSummary resolved or rejected: the cycle goes on.
NavigatorPage ==
    /\ navigator.at = "page"
    /\ Navigates([navigator EXCEPT !.at = "captcha"])

\* analyzer.hasCaptcha() is over; on a CAPTCHA the 'captcha' event needs
\* browser.currentUrl(), which can reject.
NavigatorCaptcha(found, urlOk) ==
    /\ navigator.at = "captcha"
    /\ Navigates(IF ~found THEN [navigator EXCEPT !.at = "login"]
                 ELSE IF urlOk THEN NavigatorReturn(FALSE, CaptchaSummary)
                 ELSE NavigatorReturn(FALSE, NavigatorExceptionSummary))

\* analyzer.requiresLogin() is over; 'login_needed' is emitted after the
\* second cycle and needs browser.currentUrl().
NavigatorLogin(needed, urlOk) ==
    /\ navigator.at = "login"
    /\ Navigates(IF needed /\ navigator.stepCount > 2 /\ ~urlOk
                 THEN NavigatorReturn(FALSE, NavigatorExceptionSummary)
                 ELSE [navigator EXCEPT !.at = "askAI"])

\* this.askAI resolved and parseDecision returned d.
NavigatorDecides(d) ==
    /\ navigator.at = "askAI"
    /\ LET pushed == [navigator EXCEPT !.steps = Append(@, Step(d))]
       IN  Navigates(
             IF d.action = "done"
             THEN [pushed EXCEPT !.running = FALSE, !.at = "returned",
                     !.result = Returned(TRUE, DoneSummary, navigator.stepCount)]
             ELSE IF d.action = "error"
             THEN [pushed EXCEPT !.running = FALSE, !.at = "returned",
                     !.result = Returned(FALSE,
                        IF errorListener THEN OracleErrorSummary
                        ELSE NavigatorExceptionSummary, navigator.stepCount)]
             ELSE [pushed EXCEPT !.at = "execute"])

\* this.askAI rejected or parseDecision threw.
NavigatorAskFails ==
    /\ navigator.at = "askAI"
    /\ Navigates(NavigatorError(NavigatorAISummary))

\* this.executeAction resolved, or rejected and the latest step was marked.
NavigatorExecute(ok) ==
    /\ navigator.at = "execute"
    /\ Navigates([navigator EXCEPT !.at = "delay",
                    !.steps = IF ok THEN @ ELSE MarkFailed(@)])

\* browser.humanDelay is over.
NavigatorDelay ==
    /\ navigator.at = "delay"
    /\ Navigates(NavigatorLoopTop)

\* stop()
NavigatorStop ==
    /\ Navigates([navigator EXCEPT !.running = FALSE])

NavigatorNext ==
    \/ NavigatorRun
    \/ \E ok \in BOOLEAN : NavigatorLaunch(ok)
    \/ NavigatorPage
    \/ \E found, urlOk \in BOOLEAN : NavigatorCaptcha(found, urlOk)
    \/ \E needed, urlOk \in BOOLEAN : NavigatorLogin(needed, urlOk)
    \/ \E d \in NavigatorDecisions : NavigatorDecides(d)
    \/ NavigatorAskFails
    \/ \E ok \in BOOLEAN : NavigatorExecute(ok)
    \/ NavigatorDelay
    \/ NavigatorStop

NavigatorSpec == NavigatorInit /\ [][NavigatorNext]_vars

\* ---------------------------------------------------- the oracle request
\* buildUserMessage(goal, history, screenSize, uiElements): the PREVIOUS
\* STEPS block it writes for history = this.steps.map(s => s.thought), one
\* <<number, thought>> pair for each line "number. thought".
RECENT_STEPS == 5

\* Longest history in the model.
MaxHistory == 7

\* history.slice(-RECENT_STEPS)
slice(history) ==
    LET n == Len(history)
    IN  IF n <= RECENT_STEPS THEN history
        ELSE SubSeq(history, n - RECENT_STEPS + 1, n)

\* previousSteps numbering the lines shown from 1.
previousSteps_FromOne(history) ==
    [i \in 1..Len(slice(history)) |-> <<i, slice(history)[i]>>]

\* recent.map((h, i) => offset + i + 1 + '. ' + h), i counted from 0
previousSteps(history) ==
    LET recent == slice(history)
        offset == Len(history) - Len(recent)
    IN  [i \in 1..Len(recent) |-> <<offset + (i - 1) + 1, recent[i]>>]

\* Thoughts of recorded steps, without and with the failure marker.
PlainThought == "open the page"
FailedThought == "open the page [FAILED: timeout]"

Histories ==
    UNION {[1..n -> {PlainThought, FailedThought}] : n \in 0..MaxHistory}

PromptInit ==
    /\ running = FALSE
    /\ paused = FALSE
    /\ goal = ""
    /\ steps = <<>>
    /\ stepCount = 0
    /\ lastScreenshotHash = ""
    /\ sameScreenCount = 0
    /\ errorListener = TRUE
    /\ vaultFile = SavedVault
    /\ pc = [l \in Loops |-> "idle"]
    /\ attempt = [l \in Loops |-> 0]
    /\ decision = [l \in Loops |-> NoDecision]
    /\ result = [l \in Loops |-> NoResult]
    /\ emitted = [l \in Loops |-> <<>>]
    /\ tmpFile = [l \in Loops |-> FALSE]
    /\ delivered = [l \in Loops |-> 0]
    /\ gate = NoCall
    /\ cuAgent = NoAgent
    /\ agents = [a \in Agents |-> ComputerUseAgent]
    /\ navigator = WebNavigator
    /\ page = BlankPage

BuildUserMessage(history) ==
    /\ gate' = [fn |-> "buildUserMessage", history |-> history,
                lines |-> previousSteps(history)]
    /\ UNCHANGED <<loopState, vaultFile>>

PromptNext == \E history \in Histories : BuildUserMessage(history)

PromptSpec == PromptInit /\ [][PromptNext]_vars

\* ------------------------------------------------------- the executor
\* executeAction(action, params) called directly.  A parameter value is
\* one of four JavaScript values: undefined (the property is missing), a
\* non-zero number, a non-empty string and the empty string.
JsValues == {"undefined", "number", "string", "emptyString"}

\* typeof v === 'number'
IsNumber(v) == v = "number"

\* !v is false
IsTruthy(v) == v \in {"number", "string"}

\* The parameters executeAction tests, per action kind, in the order of
\* the tests.
TestedParams(action) ==
    CASE action = "click" -> <<"x", "y">>
      [] action = "drag" -> <<"x1", "y1", "x2", "y2">>
      [] action = "type" -> <<"text">>
      [] action = "key" -> <<"combo">>
      [] action = "open_app" -> <<"name">>
      [] action = "open_url" -> <<"url">>
      [] action = "find_and_click" -> <<"text">>
      [] action = "window" -> <<"action">>
      [] OTHER -> <<>>

ExecutorActions ==
    {"click", "type", "key", "drag", "scroll", "open_app", "open_url",
     "find_and_click", "window", "wait", "fly"}

\* executeAction threw on its own, having called the primitives in calls;
\* or it awaited them all.
Thrown(calls) == [thrown |-> TRUE, calls |-> calls]
Called(calls) == [thrown |-> FALSE, calls |-> calls]

\* executeAction(action, params): params holds the values of
\* TestedParams(action); found tells whether screen.findElement returns an
\* element.  The primitives are named by their action kind.
executeAction(action, params, found) ==
    CASE action \in {"click", "drag"} ->
           IF \E i \in 1..Len(params) : ~IsNumber(params[i])
           THEN Thrown(<<>>)
           ELSE Called(<<action>>)
      [] action \in {"type", "key", "open_app", "open_url", "window"} ->
           IF ~IsTruthy(params[1]) THEN Thrown(<<>>)
           ELSE Called(<<action>>)
      [] action \in {"scroll", "wait"} -> Called(<<action>>)
      [] action = "find_and_click" ->
           IF ~IsTruthy(params[1]) THEN Thrown(<<>>)
           ELSE IF ~found THEN Thrown(<<"findElement">>)
           ELSE Called(<<"findElement", "click">>)
      [] OTHER -> Thrown(<<>>)

ExecutorInit ==
    /\ running = FALSE
    /\ paused = FALSE
    /\ goal = ""
    /\ steps = <<>>
    /\ stepCount = 0
    /\ lastScreenshotHash = ""
    /\ sameScreenCount = 0
    /\ errorListener = TRUE
    /\ vaultFile = SavedVault
    /\ pc = [l \in Loops |-> "idle"]
    /\ attempt = [l \in Loops |-> 0]
    /\ decision = [l \in Loops |-> NoDecision]
    /\ result = [l \in Loops |-> NoResult]
    /\ emitted = [l \in Loops |-> <<>>]
    /\ tmpFile = [l \in Loops |-> FALSE]
    /\ delivered = [l \in Loops |-> 0]
    /\ gate = NoCall
    /\ cuAgent = NoAgent
    /\ agents = [a \in Agents |-> ComputerUseAgent]
    /\ navigator = WebNavigator
    /\ page = BlankPage

ExecuteAction(action, params, found) ==
    /\ gate' = [fn |-> "executeAction", action |-> action, params |-> params,
                outcome |-> executeAction(action, params, found)]
    /\ UNCHANGED <<loopState, vaultFile>>

ExecutorNext ==
    \E action \in ExecutorActions, found \in BOOLEAN :
        \E params \in [1..Len(TestedParams(action)) -> JsValues] :
            ExecuteAction(action, params, found)

ExecutorSpec == ExecutorInit /\ [][ExecutorNext]_vars

\* ------------------------------------------------- human-like input
\* humanMove, humanClick and humanType of messenger.cjs, one call at a
\* time on one page.  Coordinates are kept exact: a position of a move with
\* n steps is held as its numerator over Scale(n), with the control points
\* held in tenths.
JITTER == 2

\* The step counts: options.steps of a direct humanMove call, and the ends
\* of randomInt(20, 35).
MoveSteps == {2}
ClickSteps == {20, 35}

\* Where the pointer is when a call starts, and the targets.
StartPoints == {<<100, 100>>}
Targets == {<<100, 100>>, <<300, 200>>}

\* The offsets randomInt(-50, 50) and randomInt(-30, 30) can add to the
\* control points (the ends of their ranges), and the jitter values.
Cp1Offsets == {-50, 50}
Cp2Offsets == {-30, 30}
Jitters == {-JITTER, 0, JITTER}

Scale(n) == 10 * n * n * n

\* from + (to - from) * randomFloat(lo, hi) + offset, in tenths, with the
\* random factor at tenths/10.
ControlPoint(from, to, tenths, offset) ==
    10 * from + (to - from) * tenths + 10 * offset

\* bezier(i / n, p0, p1, p2, p3) times Scale(n); p1 and p2 are in tenths.
bezier(i, n, p0, p1, p2, p3) ==
    LET mt == n - i
    IN  mt * mt * mt * 10 * p0 + 3 * mt * mt * i * p1
        + 3 * mt * i * i * p2 + i * i * i * 10 * p3

\* The events of a finished humanMove with n steps: n + 1 samples, each
\* followed by its delay, and the final move.
MoveEvents(n) ==
    [k \in 1..(2 * (n + 1)) |-> IF k % 2 = 1 THEN "move" ELSE "sleep"]
    \o <<"move">>

HandInit ==
    /\ running = FALSE
    /\ paused = FALSE
    /\ goal = ""
    /\ steps = <<>>
    /\ stepCount = 0
    /\ lastScreenshotHash = ""
    /\ sameScreenCount = 0
    /\ errorListener = TRUE
    /\ vaultFile = SavedVault
    /\ pc = [l \in Loops |-> "idle"]
    /\ attempt = [l \in Loops |-> 0]
    /\ decision = [l \in Loops |-> NoDecision]
    /\ result = [l \in Loops |-> NoResult]
    /\ emitted = [l \in Loops |-> <<>>]
    /\ tmpFile = [l \in Loops |-> FALSE]
    /\ delivered = [l \in Loops |-> 0]
    /\ gate = NoCall
    /\ cuAgent = NoAgent
    /\ agents = [a \in Agents |-> ComputerUseAgent]
    /\ navigator = WebNavigator
    /\ page = BlankPage

\* The page goes on as record next.
Handles(next) ==
    /\ page' = next
    /\ UNCHANGED <<running, paused, agentFields, errorListener, pc, attempt,
                   decision, result, emitted, tmpFile, delivered, vaultFile,
                   gate, mainProcess, navigator>>

\* No call is in progress on the page.
Free == page.at = "returned"

\* humanMove(page, to.x, to.y) up to its first sample, called by fn: the
\* current position and the four control points are drawn.
MoveStarted(fn, double, from, to, n, o1x, o1y, o2x, o2y) ==
    [fn |-> fn, at |-> "curve", double |-> double, n |-> n, i |-> 0,
     from |-> from, to |-> to,
     cp1 |-> <<ControlPoint(from[1], to[1], 2, o1x),
               ControlPoint(from[2], to[2], 1, o1y)>>,
     cp2 |-> <<ControlPoint(from[1], to[1], 5, o2x),
               ControlPoint(from[2], to[2], 6, o2y)>>,
     pointer |-> <<Scale(n) * from[1], Scale(n) * from[2]>>,
     button |-> "up", log |-> <<>>]

HumanMove(to, n, o1x, o1y, o2x, o2y) ==
    /\ Free
    /\ \E from \in StartPoints :
          Handles(MoveStarted("humanMove", FALSE, from, to, n,
                              o1x, o1y, o2x, o2y))

HumanClick(to, double, n, o1x, o1y, o2x, o2y) ==
    /\ Free
    /\ \E from \in StartPoints :
          Handles(MoveStarted("humanClick", double, from, to, n,
                              o1x, o1y, o2x, o2y))

\* One pass of the loop of humanMove: page.mouse.move to the point of the
\* curve at i / n plus the jitter, then the delay.
Sample(jx, jy) ==
    /\ page.fn \in {"humanMove", "humanClick"}
    /\ page.at = "curve"
    /\ Handles([page EXCEPT
         !.pointer = <<bezier(page.i, page.n, page.from[1], page.cp1[1],
                              page.cp2[1], page.to[1]) + jx * Scale(page.n),
                       bezier(page.i, page.n, page.from[2], page.cp1[2],
                              page.cp2[2], page.to[2]) + jy * Scale(page.n)>>,
         !.log = @ \o <<"move", "sleep">>,
         !.i = @ + 1,
         !.at = IF page.i = page.n THEN "final" ELSE "curve"])

\* FinalMove leaving the pointer where the last sample put it.
FinalMove_Left ==
    /\ page.fn \in {"humanMove", "humanClick"}
    /\ page.at = "final"
    /\ Handles([page EXCEPT
         !.log = Append(@, "move"),
         !.at = IF page.fn = "humanMove" THEN "returned" ELSE "hover"])

\* await page.mouse.move(toX, toY); humanMove returns.
FinalMove ==
    /\ page.fn \in {"humanMove", "humanClick"}
    /\ page.at = "final"
    /\ Handles([page EXCEPT
         !.pointer = <<Scale(page.n) * page.to[1], Scale(page.n) * page.to[2]>>,
         !.log = Append(@, "move"),
         !.at = IF page.fn = "humanMove" THEN "returned" ELSE "hover"])

\* A sleep of humanClick is over: the hover, the hold of a press, the gap
\* before the second click, the pause after the last release.
HumanSleep ==
    /\ page.fn = "humanClick"
    /\ page.at \in {"hover", "hold", "gap", "post"}
    /\ Handles([page EXCEPT
         !.log = Append(@, "sleep"),
         !.at = CASE page.at = "hover" -> "down"
                  [] page.at = "hold" -> "up"
                  [] page.at = "gap" -> "down"
                  [] page.at = "post" -> "returned"])

\* await page.mouse.down({ button })
MouseDown ==
    /\ page.fn = "humanClick"
    /\ page.at = "down"
    /\ Handles([page EXCEPT !.button = "down", !.log = Append(@, "down"),
                            !.at = "hold"])

\* The releases so far.
Releases(log) == Cardinality({k \in 1..Len(log) : log[k] = "up"})

\* MouseUp clicking a second time whatever options.double says.
MouseUp_AlwaysDouble ==
    /\ page.fn = "humanClick"
    /\ page.at = "up"
    /\ Handles([page EXCEPT !.button = "up", !.log = Append(@, "up"),
         !.at = IF Releases(page.log) = 0 THEN "gap" ELSE "post"])

\* await page.mouse.up({ button }); the second click follows the first
\* when options.double is set.
MouseUp ==
    /\ page.fn = "humanClick"
    /\ page.at = "up"
    /\ Handles([page EXCEPT !.button = "up", !.log = Append(@, "up"),
         !.at = IF page.double /\ Releases(page.log) = 0
                THEN "gap" ELSE "post"])

\* Texts as sequences of UTF-16 code units, as text[i] and charCodeAt read
\* them: "hi", "h i", and "h" followed by U+1F600, whose two units are the
\* surrogates 55357 and 56832.
TypedTexts == {<<104, 105>>, <<104, 32, 105>>, <<104, 55357, 56832>>}

\* The offsets randomInt(-2, 2) can add to a character code.
TypoOffsets == -2..2

IsHighSurrogate(u) == u >= 55296 /\ u <= 56319
IsLowSurrogate(u) == u >= 56320 /\ u <= 57343

\* String.fromCharCode(code): the code unit code modulo 2^16
fromCharCode(code) == code % 65536

\* page.keyboard.type(char): the unit goes in at the caret, at the end of
\* the field.
keyboardType(field, u) == Append(field, u)

\* page.keyboard.press('Backspace'): the editor removes the character
\* before the caret, both units of it when they are a surrogate pair.
Backspace(field) ==
    LET m == Len(field)
    IN  IF m = 0 THEN field
        ELSE IF /\ m >= 2
                /\ IsHighSurrogate(field[m - 1])
                /\ IsLowSurrogate(field[m])
             THEN SubSeq(field, 1, m - 2)
             ELSE SubSeq(field, 1, m - 1)

\* humanType(page, text, { mistakes }) on an empty field, up to its first
\* character.
HumanType(text, mistakes) ==
    /\ Free
    /\ Handles([fn |-> "humanType", at |-> "typing", text |-> text,
                mistakes |-> mistakes, i |-> 1, field |-> <<>>])

\* One pass of the loop of humanType, for the character at index i (from
\* 1): with typo drawn, and not at the first character, a wrong character
\* is typed and Backspace pressed; then the character is typed.
TypeCharacter(typo, offset) ==
    /\ page.fn = "humanType"
    /\ page.at = "typing"
    /\ LET char == page.text[page.i]
           wrongChar == fromCharCode(char + offset)
           before == IF page.mistakes /\ typo /\ page.i - 1 > 0
                     THEN Backspace(keyboardType(page.field, wrongChar))
                     ELSE page.field
       IN  Handles([page EXCEPT
             !.field = keyboardType(before, char),
             !.i = @ + 1,
             !.at = IF page.i = Len(page.text) THEN "returned" ELSE "typing"])

HandNext ==
    \/ \E to \in Targets, n \in MoveSteps, o1x, o1y \in Cp1Offsets,
          o2x, o2y \in Cp2Offsets : HumanMove(to, n, o1x, o1y, o2x, o2y)
    \/ \E to \in Targets, double \in BOOLEAN, n \in ClickSteps,
          o1x, o1y \in Cp1Offsets, o2x, o2y \in Cp2Offsets :
          HumanClick(to, double, n, o1x, o1y, o2x, o2y)
    \/ \E jx, jy \in Jitters : Sample(jx, jy)
    \/ FinalMove
    \/ HumanSleep
    \/ MouseDown
    \/ MouseUp
    \/ \E text \in TypedTexts, mistakes \in BOOLEAN : HumanType(text, mistakes)
    \/ \E typo \in BOOLEAN, offset \in TypoOffsets : TypeCharacter(typo, offset)

HandSpec == HandInit /\ [][HandNext]_vars

\* ------------------------------------------------------------ the claims
\* Activation l is the only activation this agent has had in progress since
\* the other activation records were last used.
OnlyLoop(l) == \A k \in Loops \ {l} : pc[k] = "idle"

\* Activation l takes the step.
Moves(l) == pc'[l] # pc[l] \/ attempt'[l] # attempt[l]

\* C1: every action handed to executeAction was allowed by the Safety Gate:
\* no activation awaits executeAction with a decision that checkAction,
\* under the persisted Policy, denies.
C1_GateBeforeExecute ==
    \A l \in Loops :
        pc[l] = "execute" => checkAction(vaultFile, decision[l], <<>>).allowed

\* C2: at most one loop is in progress on one agent instance, whatever the
\* interleaving of run(), stop(), pause() and resume().
C2_SingleLoop == Cardinality({l \in Loops : InProgress(l)}) <= 1

\* C3: once the preconditions of run() hold, its promise never rejects.
C3_RunNeverRejects == \A l \in Loops : result[l].kind # "rejected"

\* C4: a run that comes back to the head of the loop with the step budget
\* used up, and without a stop request, returns success=false with the
\* budget-exceeded summary and exactly MAX_STEPS recorded steps.
C4_BudgetResult ==
    [][\A l \in Loops :
          (OnlyLoop(l) /\ pc[l] = "settle" /\ running /\ pc'[l] = "returned")
          => /\ result'[l] = Returned(FALSE, BudgetSummary, MAX_STEPS)
             /\ Len(steps') = MAX_STEPS]_vars

\* C5: the number of recorded steps of a run never exceeds maxStepsPerTask
\* of the persisted Policy.
C5_PolicyBudget ==
    (\E l \in Loops : OnlyLoop(l))
    => Len(steps) <= loadVault(vaultFile).maxStepsPerTask

\* C6: the third of three consecutive captures with the same fingerprint
\* (the two before it were identical, and so is this one) ends the run with
\* the stuck result, before the oracle is called.
C6_StuckAtThird ==
    [][\A l \in Loops :
          (/\ OnlyLoop(l)
           /\ pc[l] = "screenshot"
           /\ Moves(l)
           /\ sameScreenCount = 1
           /\ sameScreenCount' = 2)
          => /\ pc'[l] = "returned"
             /\ result'[l] = Returned(FALSE, StuckSummary, stepCount)]_vars

\* C7: a run that returns after stop() was called on it (running is false
\* while it is in progress; resume() does not touch running) returns
\* success=false with the stopped summary and the recorded step count, and
\* emits 'stopped'.
C7_StopReturnsStopped ==
    [][\A l \in Loops :
          (OnlyLoop(l) /\ InProgress(l) /\ ~running /\ pc'[l] = "returned")
          => /\ result'[l] = Returned(FALSE, StoppedSummary, Len(steps'))
             /\ emitted'[l] = <<"stopped">>]_vars

\* C8: while the agent is paused during a run (paused set, and neither
\* resume() nor stop() is the step), the loop starts no screenshot capture,
\* no oracle call and no action execution.
C8_PausedStartsNothing ==
    [][\A l \in Loops :
          (InProgress(l) /\ running /\ paused /\ paused' /\ Moves(l))
          => pc'[l] \notin {"screenshot", "analyze", "execute"}]_vars

\* The third attempt of the screenshot call, or of the oracle call, of
\* activation l fails.
ThirdFailure(l) ==
    /\ attempt[l] = 2
    /\ pc'[l] = "returned"
    /\ \/ pc[l] = "screenshot" /\ UNCHANGED <<sameScreenCount, lastScreenshotHash>>
       \/ pc[l] = "analyze" /\ UNCHANGED steps

\* C9: the screenshot call and the oracle call are attempted at most 3
\* times, and when the third attempt fails the run returns success=false
\* with a descriptive summary, no step appended and the count unchanged.
C9_PerceptionRetries ==
    [][\A l \in Loops :
          /\ pc[l] \in {"screenshot", "analyze"} => attempt[l] <= 2
          /\ (OnlyLoop(l) /\ ThirdFailure(l))
             => /\ result'[l] =
                      Returned(FALSE,
                               IF pc[l] = "screenshot" THEN ScreenshotSummary
                               ELSE AISummary,
                               stepCount)
                /\ UNCHANGED <<steps, stepCount>>]_vars

\* C10: executeAction is attempted at most 3 times for a step, and its
\* failure never ends the run: after the third failure the marker is on the
\* step, once, and the loop goes on to the settle delay.
C10_ActionRetries ==
    [][\A l \in Loops :
          (pc[l] = "execute" /\ Moves(l))
          => /\ attempt[l] <= 2
             /\ pc'[l] \in {"execute", "settle"}
             /\ steps' # steps
                => /\ Len(steps') = Len(steps)
                   /\ steps'[Len(steps)].failed = 1]_vars

\* Activation l returns in this step.
Returns(l) == pc[l] # "returned" /\ pc'[l] = "returned"

\* Activation l records a step in this step.
Records(l) == pc[l] = "analyze" /\ Moves(l) /\ Len(steps') = Len(steps) + 1

\* C11: a run returns success=true exactly when the step it records last is
\* a 'done' step; a 'done' or 'error' step is recorded and counted, ends the
\* run at once and is never handed to executeAction; a step of any other
\* kind goes on to executeAction.
C11_TerminalActions ==
    [][\A l \in Loops :
          /\ Returns(l)
             => ((result'[l].kind = "returned" /\ result'[l].success)
                 <=> (Records(l) /\ steps'[Len(steps')].action = "done"))
          /\ (OnlyLoop(l) /\ Returns(l) /\ result'[l].kind = "returned")
             => (result'[l].success
                 <=> (steps' # <<>> /\ steps'[Len(steps')].action = "done"))
          /\ Records(l)
             => /\ stepCount' = stepCount + 1
                /\ IF steps'[Len(steps')].action \in {"done", "error"}
                   THEN pc'[l] = "returned"
                   ELSE pc'[l] = "execute"
          /\ pc[l] = "execute" => decision[l].action \notin {"done", "error"}
       ]_vars

\* A run recorded a non-terminal step and then a 'done' step, and returned
\* success=true with both counted.
C11_Witness ==
    \E l \in Loops :
        /\ result[l] = Returned(TRUE, DoneSummary, 2)
        /\ Len(steps) = 2
        /\ steps[1].action = "open_url"
        /\ steps[2].action = "done"

\* C12: a run that has ended emitted exactly one terminal lifecycle event,
\* and returned success=true exactly when that event is 'done'.
C12_OneTerminalEvent ==
    \A l \in Loops :
        pc[l] = "returned"
        => /\ Len(emitted[l]) = 1
           /\ result[l].kind = "returned"
           /\ result[l].success <=> emitted[l] = <<"done">>

\* A slot that held no activation in progress holds one after the step: a
\* run() call passed the preconditions.
Starts(l) == ~InProgress(l) /\ InProgress(l)'

\* C13: a run() call that violates a precondition changes nothing: a loop
\* starts, and the fields are reset, only when the agent is not running
\* and the goal is not empty after trimming; a rejected call leaves
\* running, paused, goal, steps, stepCount, the loops and the events as
\* they are.
C13_RejectedRunChangesNothing ==
    [][/\ \A l \in Loops :
             Starts(l) => ~running /\ goal' # "" /\ goal' = Trim(goal')
       /\ (\E g \in Goals : RunRejected(g))
          => UNCHANGED <<running, paused, goal, steps, stepCount, pc, emitted>>
       /\ (running /\ steps # <<>> /\ steps' = <<>>)
          => \E l \in Loops : Starts(l)
      ]_vars

\* The agent is running, paused, with steps recorded, and a run() call with
\* a good goal is rejected here.
C13_Witness ==
    /\ running /\ paused /\ stepCount > 0 /\ steps # <<>>
    /\ ENABLED RunRejected("open notepad")

\* C14: the screenshot payload is never written to durable storage: no
\* oracle call of any activation has a file holding it on disk.
C14_ScreenshotNeverOnDisk == \A l \in Loops : ~tmpFile[l]

\* ------------------------------------------- the claims on the vault checks
\* The Policy the latest check was made under.
Policy == loadVault(vaultFile)

\* s contains sub, compared without regard to case.
ContainsIgnoreCase(s, sub) ==
    \E i \in 0..(Len(s) - Len(sub)) :
        \A j \in 1..Len(sub) : LowerChar(s[i + j]) = LowerChar(sub[j])

\* The glob p matches the whole of w: '*' stands for any run of characters
\* none of which is in stops, every other character for itself, without
\* regard to case.
RECURSIVE Glob(_, _, _)
Glob(p, w, stops) ==
    IF p = <<>> THEN w = <<>>
    ELSE IF Head(p) = "*"
         THEN \E k \in 0..Len(w) :
                  /\ \A m \in 1..k : w[m] \notin stops
                  /\ Glob(Tail(p), SubSeq(w, k + 1, Len(w)), stops)
         ELSE /\ w # <<>>
              /\ LowerChar(Head(w)) = LowerChar(Head(p))
              /\ Glob(Tail(p), Tail(w), stops)

\* Some part of s is matched by the glob p.
GlobInside(p, s, stops) ==
    \E a \in 1..(Len(s) + 1) :
        \E b \in (a - 1)..Len(s) : Glob(p, SubSeq(s, a, b), stops)

\* C15: checkAction denies every decision while the active window's process
\* name equals or contains a blocked app of the Policy, without regard to
\* case, whatever the action, its params, the thought and the safetyMode.
C15_BlockedAppDenies ==
    (/\ gate.fn = "checkAction"
     /\ \E i \in 1..Len(Policy.blockedApps) :
            ContainsIgnoreCase(gate.process, Policy.blockedApps[i]))
    => ~gate.result.allowed

\* checkAction was called in watch-only mode for a click while KeePassXC.exe
\* had the active window, and denied it.
C15_Witness ==
    /\ gate.fn = "checkAction"
    /\ gate.process = KeePassXCExe
    /\ gate.action = "click"
    /\ Policy.safetyMode = "watch-only"
    /\ ~gate.result.allowed

\* C16, as claimed: checkUrl blocks a destination exactly when a blocked
\* pattern, as an anchored glob in which '*' matches any character
\* sequence, matches the whole destination.
C16_AnchoredGlob ==
    gate.fn = "checkUrl"
    => (gate.result.blocked
        <=> \E i \in 1..Len(Policy.blockedSites) :
                Glob(Policy.blockedSites[i], gate.param, {}))

\* C16, amended: checkUrl blocks a non-empty destination exactly when a
\* blocked pattern matches some part of it, '*' matching any run of
\* characters other than line terminators and every other character
\* (including '.') itself, without regard to case; `*.bank.*` blocks
\* secure.bank.example and not bankexample.com.
C16_UnanchoredGlob ==
    (gate.fn = "checkUrl" /\ gate.param # <<>>)
    => /\ gate.result.blocked
          <=> \E i \in 1..Len(Policy.blockedSites) :
                  GlobInside(Policy.blockedSites[i], gate.param, LineTerminators)
       /\ Policy.blockedSites = DEFAULT_VAULT.blockedSites
          => /\ gate.param = SecureBankUrl => gate.result.blocked
             /\ gate.param = BankExampleUrl => ~gate.result.blocked

\* checkUrl blocked https://hdfcbank.com/login, which no pattern of the
\* saved Policy matches as a whole.
C16_Witness ==
    /\ gate.fn = "checkUrl"
    /\ gate.param = HdfcLoginUrl
    /\ vaultFile = SavedVault
    /\ gate.result.blocked
    /\ \A i \in 1..Len(Policy.blockedSites) :
           ~Glob(Policy.blockedSites[i], gate.param, LineTerminators)

\* C17: under the default blocked sites checkUrl blocks every URL that
\* contains a blocked site name, whatever surrounds it, and allows a URL no
\* blocked pattern occurs in; checkAction denies an open_url decision
\* whenever checkUrl blocks its url.
C17_DefaultSitesBlocked ==
    /\ (/\ gate.fn = "checkUrl"
        /\ gate.param # <<>>
        /\ Policy.blockedSites = DEFAULT_VAULT.blockedSites)
       => /\ (\E i \in 1..Len(Policy.blockedSites) :
                 /\ \A k \in 1..Len(Policy.blockedSites[i]) :
                        Policy.blockedSites[i][k] # "*"
                 /\ ContainsIgnoreCase(gate.param, Policy.blockedSites[i]))
             => gate.result.blocked
          /\ gate.param \in {HdfcLoginUrl, PaypalPayUrl} => gate.result.blocked
          /\ gate.param \in {LinkedinUrl, GoogleUrl} => ~gate.result.blocked
          /\ (\A i \in 1..Len(Policy.blockedSites) :
                 ~GlobInside(Policy.blockedSites[i], gate.param, LineTerminators))
             => ~gate.result.blocked
    /\ (/\ gate.fn = "checkAction"
        /\ gate.action = "open_url"
        /\ checkUrl(vaultFile, gate.param).blocked)
       => ~gate.result.allowed

\* checkUrl blocked https://www.paypal.com/pay under the default Policy.
C17_Witness ==
    /\ gate.fn = "checkUrl"
    /\ gate.param = PaypalPayUrl
    /\ Policy = DEFAULT_VAULT
    /\ gate.result.blocked

\* A character of a word (\w).
WordChar(c) == c \in Letters \cup Digits \cup {"_"}

\* s[a..b] has no word character right before it and none right after it.
Delimited(s, a, b) ==
    /\ a = 1 \/ ~WordChar(s[a - 1])
    /\ b = Len(s) \/ ~WordChar(s[b + 1])

\* w is made of the digit groups sizes[1], sizes[2], ... in this order, with
\* at most one character of seps between two groups.
RECURSIVE Grouped(_, _, _)
Grouped(w, sizes, seps) ==
    IF sizes = <<>> THEN w = <<>>
    ELSE /\ Len(w) >= Head(sizes)
         /\ \A k \in 1..Head(sizes) : w[k] \in Digits
         /\ LET rest == SubSeq(w, Head(sizes) + 1, Len(w))
            IN IF Tail(sizes) = <<>> THEN rest = <<>>
               ELSE \/ Grouped(rest, Tail(sizes), seps)
                    \/ /\ rest # <<>>
                       /\ Head(rest) \in seps
                       /\ Grouped(Tail(rest), Tail(sizes), seps)

\* 4-4-4-(1..7) grouped digits, and 4-4-4 grouped digits
CardGroups(w, seps) == \E n \in 1..7 : Grouped(w, <<4, 4, 4, n>>, seps)
TwelveGroups(w, seps) == Grouped(w, <<4, 4, 4>>, seps)

HasBlockedKeyword(text) ==
    \E i \in 1..Len(Policy.blockedKeywords) :
        ContainsIgnoreCase(text, Policy.blockedKeywords[i])

\* The latest call was checkAction on a text-entry decision that the
\* active window does not block.
TypeNotAppBlocked ==
    /\ gate.fn = "checkAction"
    /\ gate.action = "type"
    /\ ~checkApp(vaultFile, gate.process).blocked

\* C18, as claimed: a text-entry decision is denied exactly when its text
\* contains a blocked keyword, or 4-4-4-(1..7) grouped digits with optional
\* space or hyphen separators, or 12 digits grouped 4-4-4, wherever in the
\* text the digits stand.
C18_ContainsGroupedDigits ==
    TypeNotAppBlocked
    => /\ ~gate.result.allowed
          <=> \/ HasBlockedKeyword(gate.param)
              \/ \E a \in 1..Len(gate.param) : \E b \in a..Len(gate.param) :
                    \/ CardGroups(SubSeq(gate.param, a, b),
                                  Whitespace \cup {"-"})
                    \/ TwelveGroups(SubSeq(gate.param, a, b), Whitespace)
       /\ gate.param = CardText => ~gate.result.allowed
       /\ gate.param = MeetingText => gate.result.allowed

\* C18, amended: a text-entry decision with a non-empty text is denied
\* exactly when the text contains a blocked keyword, or, between word
\* boundaries, 4-4-4-(1..7) grouped digits with at most one whitespace
\* character or hyphen between groups, or, between word boundaries, 12
\* digits grouped 4-4-4 with at most one whitespace character between
\* groups; '4111 1111 1111 1111' is denied, 'Meeting at 4:11 PM on 11/11'
\* is not.
C18_DelimitedGroupedDigits ==
    (TypeNotAppBlocked /\ gate.param # <<>>)
    => /\ ~gate.result.allowed
          <=> \/ HasBlockedKeyword(gate.param)
              \/ \E a \in 1..Len(gate.param) : \E b \in a..Len(gate.param) :
                    /\ Delimited(gate.param, a, b)
                    /\ \/ CardGroups(SubSeq(gate.param, a, b),
                                     Whitespace \cup {"-"})
                       \/ TwelveGroups(SubSeq(gate.param, a, b), Whitespace)
       /\ gate.param = CardText => ~gate.result.allowed
       /\ gate.param = MeetingText => gate.result.allowed

\* checkAction denied typing a card number whose groups are separated by
\* tabs, with chrome in the active window.
C18_Witness ==
    /\ TypeNotAppBlocked
    /\ gate.process = ChromeProcess
    /\ gate.param = TabCardText
    /\ ~gate.result.allowed

\* C19: in 'ask-before' mode a decision that is not denied needs
\* confirmation exactly when its thought, or for a click its target text,
\* contains a configured confirmation trigger, without regard to case.
C19_ConfiguredTriggers ==
    (/\ gate.fn = "checkAction"
     /\ Policy.safetyMode = "ask-before"
     /\ gate.result.allowed)
    => (gate.result.needsConfirmation
        <=> \E i \in 1..Len(Policy.requireConfirmation) :
                \/ ContainsIgnoreCase(gate.thought, Policy.requireConfirmation[i])
                \/ /\ gate.action = "click"
                   /\ ContainsIgnoreCase(gate.param, Policy.requireConfirmation[i]))

\* C20: confirmation never blocks: a decision that no deny rule matches is
\* allowed in every safetyMode, never needs confirmation in 'full-auto'
\* and always needs it in 'watch-only'; a denied decision never needs
\* confirmation.
C20_ConfirmationNeverBlocks ==
    gate.fn = "checkAction"
    => /\ (/\ ~checkApp(vaultFile, gate.process).blocked
           /\ ~(gate.action = "open_url" /\ checkUrl(vaultFile, gate.param).blocked)
           /\ ~(gate.action = "type" /\ checkText(vaultFile, gate.param).blocked))
          => /\ gate.result.allowed
             /\ Policy.safetyMode = "full-auto" => ~gate.result.needsConfirmation
             /\ Policy.safetyMode = "watch-only" => gate.result.needsConfirmation
       /\ ~(gate.result.needsConfirmation /\ ~gate.result.allowed)

\* checkAction allowed a decision with no thought in watch-only
\* mode and asked for confirmation.
C20_Witness ==
    /\ gate.fn = "checkAction"
    /\ Policy.safetyMode = "watch-only"
    /\ gate.thought = NoThought
    /\ gate.process = NoProcess
    /\ gate.result.allowed
    /\ gate.result.needsConfirmation

C22_OnlySaveVaultWrites ==
    [][(vaultFile.state # "missing" /\ vaultFile' # vaultFile)
       => gate'.fn = "saveVault"]_vars

\* The fields config gives: its properties with a value.
Given(config) ==
    {k \in DOMAIN config : k # "safetyMode" \/ config[k] # Undefined}

\* C23: loadVault() right after saveVault(c) returns c's value for every
\* field c gives and the default for every other field (the defaults hold
\* no nested object, so every field of the Policy is a top-level field);
\* with no stored record loadVault() returns the defaults and stores them,
\* and the record it stored loads as the same Policy.
C23_SaveThenLoad ==
    [][/\ (gate.fn = "saveVault" /\ gate'.fn = "loadVault")
          => /\ DOMAIN gate'.result = VaultFields
             /\ \A k \in VaultFields :
                    gate'.result[k] =
                        IF k \in Given(gate.config) THEN gate.config[k]
                        ELSE DEFAULT_VAULT[k]
       /\ (vaultFile.state = "missing" /\ gate'.fn = "loadVault")
          => /\ gate'.result = DEFAULT_VAULT
             /\ vaultFile'.state = "valid"
             /\ loadVault(vaultFile') = gate'.result
      ]_vars

\* loadVault() returned the operator's confirmation triggers, saved by
\* saveVault, over the default safety mode and blocked sites.
C23_Witness ==
    /\ gate.fn = "loadVault"
    /\ vaultFile = saveVault(PartialConfig)
    /\ gate.result.requireConfirmation = <<UpperSendTrigger>>
    /\ gate.result.safetyMode = "ask-before"
    /\ gate.result.blockedSites = DEFAULT_VAULT.blockedSites

\* ------------------------------------------- the claim on parseAction
\* The response is one of the well-formed objects, with or without text
\* and code fences around it.
WellFormed(text) ==
    \E before \in ResponsePrefixes, after \in ResponseSuffixes :
        \E body \in {ClickResponse, DoneResponse} :
            text = before \o body \o after

\* C24: parseAction returns a record { thought, action, params } for every
\* response text, with an action of the enumerated kinds; for a response
\* with no JSON object, unparsable JSON, no action or an unknown action the
\* action is 'error' and the message quotes the raw text (code fences and
\* surrounding whitespace aside), cut to RAW_LIMIT characters.
C24_ParseActionTotal ==
    gate.fn = "parseAction"
    => /\ DOMAIN gate.result = {"thought", "action", "params"}
       /\ gate.result.action \in validActions
       /\ ~WellFormed(gate.text)
          => /\ gate.result.action = ErrorAction
             /\ gate.result.params.message.interpolated =
                    substring(StripCodeBlock(trim(gate.text)))

\* ---------------------------------------------- the claim on the mouse
\* The point <<x, y>> lies on the screen.
OnScreen(point) ==
    /\ 0 <= point[1] /\ point[1] < ScreenWidth
    /\ 0 <= point[2] /\ point[2] < ScreenHeight

\* C25: click, drag and moveMouse start the input primitive only when every
\* coordinate lies on the screen (0 <= x < width, 0 <= y < height), and
\* throw before starting it otherwise.
C25_CoordinatesValidated ==
    gate.fn \in {"click", "moveMouse", "drag"}
    => (gate.outcome.invoked
        <=> \A i \in 1..Len(gate.points) : OnScreen(gate.points[i]))

\* ------------------------------------------- more claims on the agent loop
\* C26: when the oracle answers 'done' with summary s after k non-terminal
\* steps, run() returns success=true, summary s and the step count k+1;
\* after two open_url steps, done('opened') yields success=true, summary
\* 'opened' and step count 3.
C26_DoneScenario ==
    [][\A l \in Loops : \A d \in OracleDecisions :
          (/\ OnlyLoop(l)
           /\ d.action = "done"
           /\ d.param # NoParam
           /\ AnalyzeOk(l, d))
          => /\ \A i \in 1..Len(steps) : steps[i].action \notin {"done", "error"}
             /\ result'[l] = Returned(TRUE, summaryOf(d), Len(steps) + 1)
             /\ d.param = OpenedParam => result'[l].summary = "opened"
             /\ Len(steps') = Len(steps) + 1
             /\ stepCount' = Len(steps')
      ]_vars

\* Two open_url steps were executed without a failure, then the oracle
\* answered done('opened'), and the run returned success=true, 'opened', 3.
C26_Witness ==
    \E l \in Loops :
        /\ OnlyLoop(l)
        /\ result[l] = Returned(TRUE, "opened", 3)
        /\ Len(steps) = 3
        /\ steps[1] = [action |-> "open_url", failed |-> 0]
        /\ steps[2] = [action |-> "open_url", failed |-> 0]
        /\ steps[3].action = "done"

\* C27: once stop() has been called on a running agent (running is false
\* while its one loop is in progress), the loop calls executeAction no
\* more: neither the action of the cycle in flight nor a retry attempt.
C27_StopPreventsExecute ==
    [][\A l \in Loops :
          (OnlyLoop(l) /\ InProgress(l) /\ ~running /\ Moves(l))
          => pc'[l] # "execute"]_vars

\* C28: whenever run() returns, on every path, isRunning() is false.
C28_ReturnedNotRunning ==
    [][\A l \in Loops : (OnlyLoop(l) /\ Returns(l)) => ~running']_vars

\* C30: the input primitive of a decision acts on the desktop at most once:
\* executeAction is awaited again only after attempts that failed without
\* having acted, so no attempt is in flight for a decision whose primitive
\* has acted already.
C30_DeliveredOnce ==
    \A l \in Loops : pc[l] = "execute" => delivered[l] = 0

\* C29: for every sequence of 'computer-use-start' and 'computer-use-stop'
\* requests, at most one agent's loop is taking a screenshot or executing
\* an action on the desktop at any time.
C29_OneLoopOnDesktop ==
    \A a, b \in Agents :
        (/\ agents[a].at \in {"screenshot", "execute"}
         /\ agents[b].at \in {"screenshot", "execute"})
        => a = b

\* C31: a run ends as stuck only in a cycle whose fingerprint equals the
\* previous cycle's; a capture whose fingerprint differs from the previous
\* one leaves the repeat counter at zero and the run going, so the captures
\* A, A, B do not end it; run() clears the counter and the last fingerprint.
C31_StuckOnlyOnRepeat ==
    gate.fn = "run"
    => LET seen == gate.seen
           n == Len(seen)
       IN  /\ n = 0 => sameScreenCount = 0 /\ lastScreenshotHash = ""
           /\ (n >= 2 /\ seen[n] # seen[n - 1])
              => /\ ~gate.stuck
                 /\ sameScreenCount = 0
                 /\ lastScreenshotHash = seen[n]
           /\ gate.stuck => n >= 2 /\ seen[n] = seen[n - 1]
           /\ seen = <<"A", "A", "B">> => ~gate.stuck

\* A run has captured A, A, B and goes on with the counter at zero; another
\* run is possible after one that ended as stuck.
C31_Witness ==
    /\ gate.fn = "run"
    /\ gate.seen = <<"A", "A", "B">>
    /\ ~gate.stuck
    /\ sameScreenCount = 0
    /\ lastScreenshotHash = "B"

\* C32: stepCount equals the length of the step history in every state; a
\* recorded decision adds exactly one to both; a retry of the oracle call
\* and the retries and the recovery of a failed action change neither.
C32_StepCountIsHistoryLength ==
    [][/\ stepCount' = Len(steps')
       /\ stepCount' # stepCount
          => \/ stepCount' = 0
             \/ /\ stepCount' = stepCount + 1
                /\ \E l \in Loops : /\ pc[l] = "analyze"
                                    /\ pc'[l] \in {"execute", "returned"}
       /\ \A l \in Loops :
             (/\ Moves(l)
              /\ \/ pc[l] = "analyze" /\ pc'[l] = "analyze"
                 \/ pc[l] = "execute")
             => stepCount' = stepCount /\ Len(steps') = Len(steps)
      ]_vars

\* The action of the second recorded step failed on every attempt and was
\* marked in the history, with two steps counted.
C32_Witness ==
    /\ stepCount = 2
    /\ Len(steps) = 2
    /\ steps[2].failed = 1
    /\ \E l \in Loops : OnlyLoop(l) /\ pc[l] = "settle"

\* C35: the budget-exceeded summary is returned only when the step count
\* has reached the step budget: a WebNavigator run that ends because stop()
\* was called earlier does not return it.
C35_BudgetSummaryOnlyAtBudget ==
    (/\ navigator.at = "returned"
     /\ navigator.result.summary = NavigatorBudgetSummary)
    => navigator.result.steps = NavigatorMaxSteps

\* C36: every result of WebNavigator.run reports a steps value equal to the
\* number of decisions recorded in the step history.
C36_StepsIsHistoryLength ==
    navigator.at = "returned"
    => navigator.result.steps = Len(navigator.steps)

\* C33: for a history of n thoughts the oracle request lists exactly the
\* last min(n, 5) of them, in chronological order, each with its original
\* 1-based ordinal and with the failure marker it carries.
C33_RecentStepsWindow ==
    gate.fn = "buildUserMessage"
    => LET n == Len(gate.history)
           k == IF n < 5 THEN n ELSE 5
       IN  /\ Len(gate.lines) = k
           /\ \A i \in 1..k :
                 gate.lines[i] = <<n - k + i, gate.history[n - k + i]>>

\* A history of seven thoughts, the latest one marked as failed: the lines
\* shown are numbered 3 to 7 and the last one carries the marker.
C33_Witness ==
    /\ gate.fn = "buildUserMessage"
    /\ Len(gate.history) = 7
    /\ gate.history[2] = FailedThought
    /\ gate.history[3] = PlainThought
    /\ gate.lines[1] = <<3, PlainThought>>
    /\ gate.lines[5] = <<7, FailedThought>>

\* The value v is of the type the parameter of this action kind must have:
\* a number for the coordinates of click and drag, a string otherwise.
WellTyped(action, v) ==
    IF action \in {"click", "drag"} THEN v = "number" ELSE v = "string"

\* C34: when a required parameter is missing or ill-typed, or the action
\* kind is unknown, executeAction throws before it has called any screen
\* primitive.
C34_ValidatedBeforePrimitive ==
    (/\ gate.fn = "executeAction"
     /\ \/ gate.action = "fly"
        \/ \E i \in 1..Len(gate.params) : ~WellTyped(gate.action, gate.params[i]))
    => gate.outcome = Thrown(<<>>)

\* The pointer is on the exact target of the call in progress.
OnTarget ==
    page.pointer = <<Scale(page.n) * page.to[1], Scale(page.n) * page.to[2]>>

\* C37: the last pointer event of humanMove is a move to exactly the
\* target, and humanClick presses and releases the button only after it,
\* with the pointer on the exact target.
C37_ExactTarget ==
    page.fn \in {"humanMove", "humanClick"}
    => /\ page.at \notin {"curve", "final"}
          => OnTarget /\ SubSeq(page.log, 1, Len(MoveEvents(page.n)))
                         = MoveEvents(page.n)
       /\ page.at \in {"curve", "final"}
          => page.button = "up" /\ Releases(page.log) = 0

\* A double click on a target away from the start has returned.
C37_Witness ==
    /\ page.fn = "humanClick"
    /\ page.at = "returned"
    /\ page.double
    /\ page.to # page.from
    /\ OnTarget
    /\ Releases(page.log) = 2

\* The padded bounding box of the start and the target, along one axis.
InPaddedRange(v, from, to, n) ==
    LET lo == IF from < to THEN from ELSE to
        hi == IF from < to THEN to ELSE from
    IN  /\ (lo - JITTER) * Scale(n) <= v
        /\ v <= (hi + JITTER) * Scale(n)

\* C38: every sample humanMove emits lies inside the bounding box of the
\* start and the target padded by the jitter range on each side.
C38_SamplesInPaddedBox ==
    (page.fn \in {"humanMove", "humanClick"} /\ page.at \in {"curve", "final"})
    => /\ InPaddedRange(page.pointer[1], page.from[1], page.to[1], page.n)
       /\ InPaddedRange(page.pointer[2], page.from[2], page.to[2], page.n)

\* The events of a finished humanClick.
ClickEvents(n, double) ==
    MoveEvents(n) \o <<"sleep", "down", "sleep", "up">>
    \o (IF double THEN <<"sleep", "down", "sleep", "up">> ELSE <<>>)
    \o <<"sleep">>

\* C39: humanClick emits its events in the order moves, pause, down, hold,
\* up, and for a double click a gap and one more down, hold, up; the button
\* is down exactly between a down and its up, and it is up, after one pair
\* (single) or two (double), when humanClick has returned.
C39_ClickOrder ==
    page.fn = "humanClick"
    => LET expected == ClickEvents(page.n, page.double)
           m == Len(page.log)
       IN  /\ m <= Len(expected)
           /\ page.log = SubSeq(expected, 1, m)
           /\ page.button = "down"
              <=> Cardinality({k \in 1..m : page.log[k] = "down"})
                  = Releases(page.log) + 1
           /\ page.button = "up"
              <=> Cardinality({k \in 1..m : page.log[k] = "down"})
                  = Releases(page.log)
           /\ page.at = "returned"
              => /\ page.log = expected
                 /\ page.button = "up"
                 /\ Releases(page.log) = IF page.double THEN 2 ELSE 1

\* A single click has returned.
C39_Witness ==
    /\ page.fn = "humanClick"
    /\ page.at = "returned"
    /\ ~page.double
    /\ page.button = "up"
    /\ Releases(page.log) = 1

\* C40: whatever the typo simulation draws, the text in the field when
\* humanType returns (the characters typed less the ones Backspace removed)
\* is the input text.
C40_NetTextIsInput ==
    (page.fn = "humanType" /\ page.at = "returned")
    => page.field = page.text

====
